---------------------------- MODULE Spec2Model ----------------------------
(***************************************************************************)
(* A model of the schemeless MongoDB API: the structured-query compiler    *)
(* and list pipeline of routes/crud.js, and the named-query registry and   *)
(* parameter substitution of the queries router.                           *)
(*                                                                         *)
(* JSON values are tagged records, so that a number, the string that       *)
(* spells it and the array that holds it are three different values.       *)
(* Strings that the code inspects (condition values, principal ids,        *)
(* template leaves) are sequences of one-character strings; object keys,   *)
(* field names and operator symbols, which the code only compares, are     *)
(* TLA+ strings.                                                           *)
(***************************************************************************)
EXTENDS Integers, Sequences, FiniteSets, TLC

VARIABLES
    cq,        \* parseStructuredQuery: the call's arguments [uid, text]
    cres,      \* parseStructuredQuery: its outcome, or Pending
    store,     \* the collections: for each, its documents in insertion order
    lreq,      \* GET /:collectionName: the request being answered, or NoRequest
    lres,      \* GET /:collectionName: what the handler computed and answered
    registry,  \* the database_queries collection: a sequence of NamedQuery records
    clock,     \* the value new Date() returns next
    nextOid,   \* the count of identifiers generated so far, plus one
    qres,      \* the queries router's last response, or NoResponse
    calls,     \* the requests in flight, each at its await
    wreq,      \* the last write request of the crud router, or NoRequest
    wres       \* the crud router's answer to it, or NoResponse

vars == <<cq, cres, store, lreq, lres, registry, clock, nextOid, qres, calls, wreq, wres>>

-----------------------------------------------------------------------------
(* JSON values *)

Undef == [t |-> "undef"]
Null == [t |-> "null"]
NaN == [t |-> "nan"]
Inf(neg) == [t |-> "inf", neg |-> neg]
B(b) == [t |-> "bool", b |-> b]
N(n) == [t |-> "num", n |-> n]
S(s) == [t |-> "str", s |-> s]
A(a) == [t |-> "arr", a |-> a]
O(o) == [t |-> "obj", o |-> o]
\* A function object, such as the ones every object inherits from Object.prototype.
Fn(name) == [t |-> "fn", name |-> name]

EmptyObj == O(<<>>)

Put(m, k, v) == [x \in (DOMAIN m) \cup {k} |-> IF x = k THEN v ELSE m[x]]

Obj1(k, v) == O(Put(<<>>, k, v))

Obj2(k1, v1, k2, v2) == O(Put(Put(<<>>, k1, v1), k2, v2))

\* The function-valued properties every object inherits from Object.prototype
\* (those the model spells).
ProtoNames == {"constructor", "toString"}

\* JavaScript's ToBoolean, negated: the values for which !v is true.
Falsy(v) == v \in {Undef, Null, NaN, N(0), S(<<>>), B(FALSE)}

-----------------------------------------------------------------------------
(* Strings and the number conversions of JavaScript *)

DigitChars == <<"0", "1", "2", "3", "4", "5", "6", "7", "8", "9">>

IsDigit(c) == \E i \in 1..Len(DigitChars) : DigitChars[i] = c

DigitValue(c) == (CHOOSE i \in 1..Len(DigitChars) : DigitChars[i] = c) - 1

RECURSIVE DigitsValue(_)
DigitsValue(s) ==
    IF s = <<>> THEN 0
    ELSE 10 * DigitsValue(SubSeq(s, 1, Len(s) - 1)) + DigitValue(s[Len(s)])

\* The length of the longest prefix of s made of decimal digits.
RECURSIVE LeadingDigits(_)
LeadingDigits(s) ==
    IF s = <<>> \/ ~IsDigit(Head(s)) THEN 0 ELSE 1 + LeadingDigits(Tail(s))

HasSign(s) == s # <<>> /\ Head(s) \in {"+", "-"}

Unsigned(s) == IF HasSign(s) THEN Tail(s) ELSE s

Negative(s) == s # <<>> /\ Head(s) = "-"

Signed(s, n) == IF Negative(s) THEN 0 - n ELSE n

StrInfinity == <<"I", "n", "f", "i", "n", "i", "t", "y">>

StartsWith(s, p) == Len(s) >= Len(p) /\ SubSeq(s, 1, Len(p)) = p

EndsWith(s, p) == Len(s) >= Len(p) /\ SubSeq(s, Len(s) - Len(p) + 1, Len(s)) = p

\* Number(s) for a string s over the model's alphabet (no white space, no
\* fraction, exponent or radix prefix): the whole string must be a literal.
JsNumber(s) ==
    IF s = <<>> THEN N(0)
    ELSE IF Unsigned(s) # <<>> /\ LeadingDigits(Unsigned(s)) = Len(Unsigned(s))
         THEN N(Signed(s, DigitsValue(Unsigned(s))))
    ELSE IF Unsigned(s) = StrInfinity THEN Inf(Negative(s))
    ELSE NaN

\* parseFloat(s): the longest prefix of s that is a literal.
JsParseFloat(s) ==
    IF LeadingDigits(Unsigned(s)) > 0
    THEN N(Signed(s, DigitsValue(SubSeq(Unsigned(s), 1, LeadingDigits(Unsigned(s))))))
    ELSE IF StartsWith(Unsigned(s), StrInfinity) THEN Inf(Negative(s))
    ELSE NaN

\* String(v) for the values parseInt is given in the model.
RECURSIVE DigitsOf(_)
DigitsOf(n) ==
    IF n < 10 THEN <<DigitChars[n + 1]>>
    ELSE Append(DigitsOf(n \div 10), DigitChars[(n % 10) + 1])

JsToString(v) ==
    CASE v.t = "str" -> v.s
      [] v.t = "num" -> IF v.n < 0 THEN <<"-">> \o DigitsOf(0 - v.n) ELSE DigitsOf(v.n)
      [] v.t = "bool" -> IF v.b THEN <<"t", "r", "u", "e">> ELSE <<"f", "a", "l", "s", "e">>
      [] v.t = "null" -> <<"n", "u", "l", "l">>
      [] v.t = "inf" -> IF v.neg THEN <<"-">> \o StrInfinity ELSE StrInfinity
      [] v.t = "nan" -> <<"N", "a", "N">>
      [] OTHER -> <<"[", "o", "b", "j", "e", "c", "t", "]">>

\* parseInt(v): String(v), then the longest prefix that is a signed integer.
JsParseInt(v) ==
    LET s == JsToString(v) IN
    IF LeadingDigits(Unsigned(s)) > 0
    THEN N(Signed(s, DigitsValue(SubSeq(Unsigned(s), 1, LeadingDigits(Unsigned(s))))))
    ELSE NaN

IsNaN(v) == v = NaN


-----------------------------------------------------------------------------
(* parseStructuredQuery (routes/crud.js) *)

\* A key the client's JSON does not hold (destructuring then takes the default).
Absent == "<absent>"

\* One entry of the conditions array. field and operator are "" when the entry
\* lacks them (undefined and "" are both falsy for the guard of line 78).
Cond(f, op, v) == [field |-> f, operator |-> op, value |-> v]

\* The parsed query object: what JSON.parse returns for a QuerySpec.
Query(conds, obf, od, lim, off, sa, so) ==
    [t |-> "query", conditions |-> conds, orderByField |-> obf, orderDirection |-> od,
     limitCount |-> lim, offsetCount |-> off, startAfter |-> sa, sortObject |-> so]

\* The query text: one JSON.parse rejects, or one it parses to json.
InvalidText == [valid |-> FALSE]

Text(json) == [valid |-> TRUE, json |-> json]

Returned(filter, options) == [ok |-> TRUE, filter |-> filter, options |-> options]

Thrown(msg) == [ok |-> FALSE, error |-> msg]

InvalidQueryMsg == "Invalid query JSON format."

\* The message of a TypeError the JavaScript runtime raises.
TypeErrorMsg == "TypeError"

opMap ==
    ("==" :> "$eq") @@ ("!=" :> "$ne") @@ (">" :> "$gt") @@ (">=" :> "$gte") @@
    ("<" :> "$lt") @@ ("<=" :> "$lte") @@ ("in" :> "$in") @@ ("nin" :> "$nin") @@
    ("array-contains" :> "$eq") @@ ("array-contains-any" :> "$in") @@
    ("exists" :> "$exists") @@ ("regex" :> "$regex") @@ ("like" :> "$regex")

StrTrue == <<"t", "r", "u", "e">>

StrFalse == <<"f", "a", "l", "s", "e">>

\* Lines 84-93: a string value becomes a number or a boolean when it spells one.
CoerceValue(value) ==
    IF value.t = "str"
    THEN IF ~IsNaN(JsNumber(value.s)) /\ ~IsNaN(JsParseFloat(value.s)) THEN JsNumber(value.s)
         ELSE IF value.s = StrTrue THEN B(TRUE)
         ELSE IF value.s = StrFalse THEN B(FALSE)
         ELSE value
    ELSE value

\* The characters line 117 escapes.
RegexMeta == {".", "?", "*", "+", "^", "$", "[", "]", "\\", "(", ")", "{", "}", "|"}

RECURSIVE EscapeRegex(_)
EscapeRegex(s) ==
    IF s = <<>> THEN <<>>
    ELSE (IF Head(s) \in RegexMeta THEN <<"\\", Head(s)>> ELSE <<Head(s)>>)
         \o EscapeRegex(Tail(s))

LikePattern(s) == <<".", "*">> \o EscapeRegex(s) \o <<".", "*">>

\* obj[key] = v: on an object the property is set; on a primitive the
\* assignment is silently ignored (the module is not in strict mode); on an
\* array it adds a named property, which is no element of the array.
SetProp(cur, key, v) == IF cur.t = "obj" THEN O(Put(cur.o, key, v)) ELSE cur

\* Object.keys(cur).length
KeysLength(cur) ==
    CASE cur.t = "obj" -> Cardinality(DOMAIN cur.o)
      [] cur.t = "str" -> Len(cur.s)
      [] cur.t = "arr" -> Len(cur.a)
      [] cur.t = "fn" /\ "keys" \in DOMAIN cur -> cur.keys
      [] OTHER -> 0

\* Line 76: opMap[operator] reads through the prototype chain, so an operator
\* named as an inherited function yields that function, which is truthy and
\* becomes the property key of line 135 as its source text.
FunctionText(name) ==
    IF name = "constructor" THEN "function Object() { [native code] }"
    ELSE "function toString() { [native code] }"

\* A compiler whose regex, like and array-contains add to the predicate the
\* field already has.
ApplyOperatorMerging(cur, operator, pv) ==
    IF operator \in DOMAIN opMap
    THEN LET mongooseOp == opMap[operator] IN
         CASE operator = "array-contains" -> SetProp(cur, mongooseOp, pv)
           [] operator \in {"array-contains-any", "in", "nin"} ->
                SetProp(cur, mongooseOp, IF pv.t = "arr" THEN pv ELSE A(<<pv>>))
           [] operator = "exists" -> SetProp(cur, mongooseOp, pv)
           [] operator = "regex" ->
                SetProp(SetProp(cur, mongooseOp, pv), "$options", S(<<"i">>))
           [] operator = "like" ->
                IF pv.t = "str"
                THEN SetProp(SetProp(cur, mongooseOp, S(LikePattern(pv.s))),
                             "$options", S(<<"i">>))
                ELSE Undef
           [] operator = "==" ->
                IF KeysLength(cur) = 0 THEN pv ELSE SetProp(cur, "$eq", pv)
           [] OTHER -> SetProp(cur, mongooseOp, pv)
    ELSE pv

\* Lines 100-137: the predicate of one field after one more condition; cur is
\* fieldConditions[field] after lines 96-98. A thrown TypeError is Undef.
ApplyOperator(cur, operator, pv) ==
    IF operator \in DOMAIN opMap
    THEN LET mongooseOp == opMap[operator] IN
         CASE operator = "array-contains" -> pv
           [] operator \in {"array-contains-any", "in", "nin"} ->
                SetProp(cur, mongooseOp, IF pv.t = "arr" THEN pv ELSE A(<<pv>>))
           [] operator = "exists" -> SetProp(cur, mongooseOp, pv)
           [] operator = "regex" -> Obj2(mongooseOp, pv, "$options", S(<<"i">>))
           [] operator = "like" ->
                IF pv.t = "str"
                THEN Obj2(mongooseOp, S(LikePattern(pv.s)), "$options", S(<<"i">>))
                ELSE Undef
           [] operator = "==" ->
                IF KeysLength(cur) = 0 THEN pv ELSE SetProp(cur, "$eq", pv)
           [] OTHER -> SetProp(cur, mongooseOp, pv)
    ELSE IF operator \in ProtoNames THEN SetProp(cur, FunctionText(operator), pv)
    ELSE pv

\* A compiler that trusts the client: the value of a userId condition is kept.
ConditionValueFromClient(c, userId) == c.value

\* Lines 71-74: a condition on userId takes the caller's id as its value.
ConditionValue(c, userId) == IF c.field = "userId" THEN S(userId) ELSE c.value

\* Lines 68-138, one iteration: fieldConditions after the condition, or a throw
\* (destructuring a null entry, or like on a value that is no string).
\* fieldConditions[field] reads through the prototype chain: for a field named
\* as an inherited function, line 96 finds the function, and the operators that
\* set a property on fieldConditions[field] set it on that function, which is
\* no property of fieldConditions; written is the set of the inherited
\* functions that were given a property so far.
ConditionStep(fc, written, c, userId) ==
    IF c = Null THEN [ok |-> FALSE]
    ELSE LET value == ConditionValue(c, userId) IN
         IF c.field = "" \/ c.operator = "" \/ value = Undef
         THEN [ok |-> TRUE, fc |-> fc, written |-> written]
         ELSE LET pv == CoerceValue(value)
                  old == IF c.field \in DOMAIN fc THEN fc[c.field]
                         ELSE IF c.field \in ProtoNames
                         THEN [t |-> "fn", name |-> c.field,
                               keys |-> IF c.field \in written THEN 1 ELSE 0]
                         ELSE Undef
                  cur == IF Falsy(old) THEN EmptyObj ELSE old
                  new == ApplyOperator(cur, c.operator, pv)
              IN IF new = Undef THEN [ok |-> FALSE]
                 ELSE IF new.t = "fn"
                 THEN [ok |-> TRUE, fc |-> fc, written |-> written \cup {c.field}]
                 ELSE [ok |-> TRUE, fc |-> Put(fc, c.field, new), written |-> written]

RECURSIVE ConditionLoop(_, _, _, _)
\* Lines 68-138, for a process in which no inherited function was written yet.
ConditionLoop(fc, written, conds, userId) ==
    IF conds = <<>> THEN [ok |-> TRUE, fc |-> fc]
    ELSE LET r == ConditionStep(fc, written, Head(conds), userId) IN
         IF r.ok THEN ConditionLoop(r.fc, r.written, Tail(conds), userId) ELSE r

\* Lines 150-158.
\* The named field sorts whenever the client names one.
FieldFirstSort(q) ==
    IF q.sortObject \notin {Undef, Null} /\ q.orderByField = Absent THEN q.sortObject
    ELSE Obj1(IF q.orderByField = Absent THEN "id" ELSE q.orderByField,
              IF q.orderDirection = "asc" THEN N(1) ELSE N(0 - 1))

SortOption(q) ==
    IF q.sortObject \notin {Undef, Null} THEN q.sortObject
    ELSE Obj1(IF q.orderByField = Absent THEN "id" ELSE q.orderByField,
              IF q.orderDirection = "asc" THEN N(1) ELSE N(0 - 1))

LimitOption(q) ==
    IF q.limitCount \notin {Undef, Null} THEN JsParseInt(q.limitCount) ELSE Undef

\* The offset is read before the cursor.
OffsetFirstSkip(q) ==
    IF q.offsetCount \notin {Undef, Null} THEN JsParseInt(q.offsetCount)
    ELSE IF q.startAfter \notin {Undef, Null} /\ ~IsNaN(JsParseInt(q.startAfter))
    THEN JsParseInt(q.startAfter)
    ELSE Undef

SkipOption(q) ==
    IF q.startAfter \notin {Undef, Null} /\ ~IsNaN(JsParseInt(q.startAfter))
    THEN JsParseInt(q.startAfter)
    ELSE IF q.offsetCount \notin {Undef, Null} THEN JsParseInt(q.offsetCount)
    ELSE Undef

QueryOptions(q) == [sort |-> SortOption(q), limit |-> LimitOption(q), skip |-> SkipOption(q)]

\* What the destructuring of lines 39-47 yields for a JSON value that is no
\* query object (a number, a string, an array): every key takes its default.
DefaultQuery == Query(Undef, Absent, Absent, Undef, Undef, Undef, Undef)

\* Lines 68: for...of over the conditions value. Undefined takes the default
\* []; an array is iterated; a string is iterated by character, and no
\* character has a field; anything else is not iterable.
IterableConditions(conds) ==
    CASE conds.t = "undef" -> [ok |-> TRUE, entries |-> <<>>]
      [] conds.t = "arr" -> [ok |-> TRUE, entries |-> conds.a]
      [] conds.t = "str" ->
           [ok |-> TRUE, entries |-> [i \in 1..Len(conds.s) |-> Cond("", "", Undef)]]
      [] OTHER -> [ok |-> FALSE]

parseStructuredQuery(text, userId) ==
    IF ~text.valid THEN Thrown(InvalidQueryMsg)
    ELSE IF text.json = Null THEN Thrown(TypeErrorMsg)
    ELSE LET q == IF text.json.t = "query" THEN text.json ELSE DefaultQuery
             it == IterableConditions(q.conditions)
         IN IF ~it.ok THEN Thrown(TypeErrorMsg)
            ELSE LET r == ConditionLoop(<<>>, {}, it.entries, userId) IN
                 IF r.ok THEN Returned(r.fc, QueryOptions(q)) ELSE Thrown(TypeErrorMsg)

-----------------------------------------------------------------------------
(* The inputs of the model *)

\* Principal ids, as the authentication middleware resolves them (ULIDs or
\* Firebase uids: strings that spell neither a number nor a boolean).
U1 == <<"u", "1">>

U2 == <<"u", "2">>

Uids == {U1, U2}

Str25 == <<"2", "5">>

Str50 == <<"5", "0">>

StrAb == <<"a", "b">>

StrAbc == <<"a", ".", "b", "*", "c">>

StrReact == <<"r", "e", "a", "c", "t">>

StrVue == <<"v", "u", "e">>

StrA1 == <<"a", "1">>

StrA2 == <<"a", "2">>

\* The longest conditions list of a query.
MaxConds == 2

\* Conditions on an ordinary field: every operator of opMap, an operator it
\* does not hold, and the malformed shapes.
AgeConds ==
    {Cond("age", "==", N(0)), Cond("age", "==", N(5)), Cond("age", "==", S(StrAb)),
     Cond("age", "!=", N(5)), Cond("age", ">", S(Str25)), Cond("age", ">", N(5)),
     Cond("age", ">=", N(5)), Cond("age", "<", S(Str50)), Cond("age", "<=", N(5)),
     Cond("age", "in", A(<<S(StrReact), S(StrVue)>>)), Cond("age", "in", S(StrAb)),
     Cond("age", "nin", N(5)),
     Cond("age", "array-contains-any", A(<<S(StrReact), S(StrVue)>>)),
     Cond("age", "array-contains-any", S(StrVue)),
     Cond("age", "array-contains", N(5)), Cond("age", "array-contains", S(StrAb)),
     Cond("age", "exists", S(StrTrue)),
     Cond("age", "regex", S(<<"a", ".", "c">>)),
     Cond("age", "like", S(StrAbc)), Cond("age", "like", S(Str25)),
     Cond("age", "~", N(5)),
     Cond("age", "", N(5)), Cond("age", ">", Undef), Cond("", ">", N(5))}

\* Conditions on the ownership field, with the values a client may supply.
UserIdConds ==
    {Cond("userId", "==", S(U2)), Cond("userId", "==", Undef),
     Cond("userId", "!=", S(U2)), Cond("userId", "in", A(<<S(U1), S(U2)>>)),
     Cond("userId", "like", S(U2)), Cond("userId", ">", S(Str25)),
     Cond("userId", "<", S(Str50))}

AccountConds ==
    {Cond("accountId", "==", S(StrA1)), Cond("accountId", "==", N(0)),
     Cond("accountId", "in", A(<<S(StrA1), S(StrA2)>>))}

\* Conditions on a field named as a property every object inherits.
InheritedNameConds ==
    {Cond("constructor", ">", S(Str25)), Cond("constructor", "<", S(Str50)),
     Cond("constructor", "==", N(5))}

CondPool == AgeConds \cup UserIdConds \cup AccountConds \cup InheritedNameConds \cup {Null}

CondSeqs(pool, n) == UNION {[1..k -> pool] : k \in 0..n}

ConditionsOnly(conds) == Query(conds, Absent, Absent, Undef, Undef, Undef, Undef)

\* Queries that vary the conditions list.
ConditionQueries == {ConditionsOnly(A(cs)) : cs \in CondSeqs(CondPool, MaxConds)}

\* Queries whose conditions value is no array.
NonArrayConditionQueries ==
    {ConditionsOnly(c) : c \in {Null, N(5), S(StrAb), EmptyObj}}

SortInputs == {Undef, Null, Obj1("date", N(1)), N(0)}

CountInputs == {Undef, Null, N(0), N(2), N(5), S(Str25), S(StrAb), S(<<"5", "a">>)}

\* Queries that vary the sort and pagination keys.
OptionQueries ==
    {Query(Undef, obf, od, lim, off, sa, so) :
        obf \in {Absent, "age"}, od \in {Absent, "asc", "desc"},
        lim \in {Undef, N(0), N(2)}, off \in {Undef, N(2)},
        sa \in {Undef, N(5)}, so \in {Undef, Obj1("date", N(1))}}
    \cup {Query(Undef, Absent, Absent, lim, Undef, Undef, so) :
        lim \in CountInputs, so \in SortInputs}
    \cup {Query(Undef, Absent, Absent, Undef, off, sa, Undef) :
        off \in CountInputs, sa \in CountInputs}
    \cup {Query(Undef, obf, od, Undef, Undef, Undef, so) :
        obf \in {Absent, "age"}, od \in {"ASC", "up"}, so \in SortInputs}

\* Texts that parse to a JSON value that is no object.
NonObjectTexts == {Text(Null), Text(N(5)), Text(A(<<>>))}

\* The values of a condition that coercion may or may not change.
CoercionValues ==
    {S(Str25), S(<<"-", "5">>), S(<<"0">>), S(StrTrue), S(StrFalse), S(<<>>),
     S(<<"5", "a">>), S(StrAb), S(StrInfinity), S(<<"-">> \o StrInfinity),
     N(5), B(TRUE), Null, A(<<S(Str25)>>)}

\* Queries of one condition that vary its value.
CoercionQueries ==
    {ConditionsOnly(A(<<Cond("age", op, v)>>)) :
        op \in {"==", "!=", ">", "in", "array-contains", "exists", "regex", "~",
                "constructor"},
        v \in CoercionValues}

\* The texts a client searches for with like.
LikeValues ==
    {StrAbc, <<"a", ".", "b">>, <<"a", "*">>, <<"a", ".", "b", "*", "c">>, <<"\\">>,
     <<"n">>, <<>>, Str25, StrTrue, <<"5", "a">>}

\* Queries of one like condition.
LikeQueries == {ConditionsOnly(A(<<Cond("age", "like", S(v))>>)) : v \in LikeValues}

CompileTexts ==
    {InvalidText} \cup NonObjectTexts
    \cup {Text(q) : q \in ConditionQueries \cup NonArrayConditionQueries \cup OptionQueries
                          \cup CoercionQueries \cup LikeQueries}

-----------------------------------------------------------------------------
(* The idle values of the variables *)

NotCalled == [done |-> FALSE]

Called(out) == [done |-> TRUE, out |-> out]

NoCall == [uid |-> U1, text |-> InvalidText]

NoRequest == [active |-> FALSE]

NoListResult == [status |-> 0]

NoResponse == [status |-> 0]

IdleList ==
    /\ store = [c \in {"transactions", "accounts", "users"} |-> <<>>]
    /\ lreq = NoRequest
    /\ lres = NoListResult

NoCalls == <<>>

IdleQueries ==
    /\ registry = <<>> /\ clock = 1 /\ nextOid = 1 /\ qres = NoResponse
    /\ calls = NoCalls

listVars == <<store, lreq, lres>>

queryVars == <<registry, clock, nextOid, qres, calls>>

compileVars == <<cq, cres>>

writeVars == <<wreq, wres>>

IdleWrites == wreq = NoRequest /\ wres = NoResponse

-----------------------------------------------------------------------------
(* SpecCompile: parseStructuredQuery applied to every input of the model *)

InitCompile ==
    /\ cq \in [uid : Uids, text : CompileTexts]
    /\ cres = NotCalled
    /\ IdleList
    /\ IdleQueries
    /\ IdleWrites

ParseCall ==
    /\ ~cres.done
    /\ cres' = Called(parseStructuredQuery(cq.text, cq.uid))
    /\ UNCHANGED <<cq, listVars, queryVars, writeVars>>

NextCompile == ParseCall

SpecCompile == InitCompile /\ [][NextCompile]_vars

-----------------------------------------------------------------------------
(* Claims about parseStructuredQuery *)

UserIdPositions(cs) == {i \in 1..Len(cs) : cs[i] # Null /\ cs[i].field = "userId"}

\* The values a client may put in a userId condition.
ClientValues == {Undef, Null, S(U1), S(U2), S(Str25), N(0), B(TRUE), A(<<S(U2)>>)}

\* The texts that differ from text only in the values of its userId conditions.
UserIdVariants(text) ==
    IF text.valid /\ text.json.t = "query" /\ text.json.conditions.t = "arr"
    THEN LET cs == text.json.conditions.a IN
         {Text([text.json EXCEPT !.conditions =
                    A([i \in 1..Len(cs) |->
                          IF i \in UserIdPositions(cs)
                          THEN [cs[i] EXCEPT !.value = a[i]] ELSE cs[i]])]) :
              a \in [UserIdPositions(cs) -> ClientValues]}
    ELSE {text}

\* The scalar values a predicate holds, its regex options aside.
RECURSIVE Leaves(_)
Leaves(v) ==
    CASE v.t = "obj" -> UNION {Leaves(v.o[k]) : k \in (DOMAIN v.o) \ {"$options"}}
      [] v.t = "arr" -> UNION {Leaves(v.a[i]) : i \in 1..Len(v.a)}
      [] OTHER -> {v}

Contains(s, sub) == \E i \in 0..(Len(s) - Len(sub)) : SubSeq(s, i + 1, i + Len(sub)) = sub

\* C3: every condition on userId is compiled with the caller's id as its value,
\* whatever the client supplied: the queries that differ from the compiled one
\* only in the values of their userId conditions have the same outcome, and
\* every value in the filter's userId predicate is a string holding the caller's id.
C3_UserIdValueForced ==
    cres.done =>
        /\ \A t2 \in UserIdVariants(cq.text) : parseStructuredQuery(t2, cq.uid) = cres.out
        /\ (cres.out.ok /\ "userId" \in DOMAIN cres.out.filter) =>
               \A l \in Leaves(cres.out.filter.userId) : l.t = "str" /\ Contains(l.s, cq.uid)

\* u1 asks for the documents whose userId is u2 and gets a filter on u1.
C3_Witness ==
    /\ cres.done
    /\ cq.uid = U1
    /\ cq.text = Text(ConditionsOnly(A(<<Cond("userId", "==", S(U2))>>)))
    /\ cres.out.ok
    /\ cres.out.filter = [userId |-> S(U1)]

WellFormed(c) == c # Null /\ c.field # "" /\ c.operator # "" /\ c.value # Undef

Overwriting(op) == op \in {"array-contains", "regex", "like"}

\* The condition's own contribution is still in the field's predicate.
Kept(c, pred, uid) ==
    LET pv == CoerceValue(IF c.field = "userId" THEN S(uid) ELSE c.value) IN
    IF c.operator \in DOMAIN opMap
    THEN /\ pred.t = "obj"
         /\ opMap[c.operator] \in DOMAIN pred.o
         /\ pred.o[opMap[c.operator]] =
                (IF c.operator \in {"in", "nin", "array-contains-any"} /\ pv.t # "arr"
                 THEN A(<<pv>>) ELSE pv)
    ELSE pred = pv

\* C4: for a list of well-formed conditions, no condition on a field is
\* discarded by another condition on that field, the fields with an equality
\* or an overwriting operator (array-contains, regex, like) aside.
C4_NoConditionDiscarded ==
    (/\ cres.done
     /\ cres.out.ok
     /\ cq.text.valid
     /\ cq.text.json.t = "query"
     /\ cq.text.json.conditions.t = "arr")
    => LET cs == cq.text.json.conditions.a IN
       (\A i \in 1..Len(cs) : WellFormed(cs[i])) =>
           \A i \in 1..Len(cs) :
               (\A j \in 1..Len(cs) :
                    cs[j].field = cs[i].field =>
                        cs[j].operator # "==" /\ ~Overwriting(cs[j].operator))
               => /\ cs[i].field \in DOMAIN cres.out.filter
                  /\ Kept(cs[i], cres.out.filter[cs[i].field], cq.uid)

\* C5: the only error of the compiler is the invalid-syntax one: every text
\* that parses as JSON yields a filter and options.
C5_OnlyInvalidSyntaxRaises ==
    cres.done =>
        /\ cq.text.valid => cres.out.ok
        /\ ~cres.out.ok => cres.out.error = InvalidQueryMsg

-----------------------------------------------------------------------------
(* The document store: how MongoDB compares values and matches a filter *)

\* A decimal number with three fractional digits, counted in thousandths:
\* the amounts and balances of the ledger.
Dec(m) == [t |-> "dec", m |-> m]

\* A field path of an aggregation expression: "$amount" is Path("amount").
Path(p) == [t |-> "path", p |-> p]

\* An ordered sort specification: {date: 1, id: 1}.
SortSpec(keys) == [t |-> "sortspec", keys |-> keys]

IsNumber(v) == v.t \in {"num", "dec"}

\* A number's value in thousandths.
Thousandths(v) == IF v.t = "dec" THEN v.m ELSE v.n * 1000

\* The characters of the model, in code point order.
CharOrder ==
    <<"$", "(", ")", "*", "+", "-", ".", "0", "1", "2", "3", "4", "5", "6", "7",
      "8", "9", "?", "I", "N", "[", "\\", "]", "^", "a", "b", "c", "d", "e", "f",
      "g", "h", "i", "j", "k", "l", "m", "n", "o", "p", "q", "r", "s", "t", "u",
      "v", "w", "x", "y", "z", "{", "|", "}">>

CharCode(c) == CHOOSE i \in 1..Len(CharOrder) : CharOrder[i] = c

RECURSIVE StrLess(_, _)
StrLess(a, b) ==
    IF b = <<>> THEN FALSE
    ELSE IF a = <<>> THEN TRUE
    ELSE IF Head(a) = Head(b) THEN StrLess(Tail(a), Tail(b))
    ELSE CharCode(Head(a)) < CharCode(Head(b))

\* BSON's comparison order of the types the model stores.
TypeRank(v) ==
    CASE v.t \in {"undef", "null"} -> 1
      [] IsNumber(v) -> 2
      [] v.t = "str" -> 3
      [] v.t = "obj" -> 4
      [] v.t = "arr" -> 5
      [] v.t = "bool" -> 6
      [] OTHER -> 7

\* a sorts strictly before b.
ValueLess(a, b) ==
    IF TypeRank(a) # TypeRank(b) THEN TypeRank(a) < TypeRank(b)
    ELSE CASE IsNumber(a) -> Thousandths(a) < Thousandths(b)
           [] a.t = "str" -> StrLess(a.s, b.s)
           [] a.t = "bool" -> ~a.b /\ b.b
           [] OTHER -> FALSE

ValueEqual(a, b) ==
    IF IsNumber(a) /\ IsNumber(b) THEN Thousandths(a) = Thousandths(b)
    ELSE IF TypeRank(a) = 1 /\ TypeRank(b) = 1 THEN TRUE
    ELSE a = b

\* The value of a document's field; a missing field reads as undefined.
FieldOf(doc, f) == IF f \in DOMAIN doc THEN doc[f] ELSE Undef

\* A regular expression over literals, escapes, "." and "*".
RECURSIVE RegexItems(_)
RegexItems(p) ==
    IF p = <<>> THEN <<>>
    ELSE LET esc == Head(p) = "\\" /\ Len(p) >= 2
             atom == IF esc THEN [any |-> FALSE, c |-> p[2]]
                     ELSE IF Head(p) = "." THEN [any |-> TRUE, c |-> "."]
                     ELSE [any |-> FALSE, c |-> Head(p)]
             rest == IF esc THEN SubSeq(p, 3, Len(p)) ELSE Tail(p)
             star == rest # <<>> /\ Head(rest) = "*"
         IN <<[any |-> atom.any, c |-> atom.c, star |-> star]>>
            \o RegexItems(IF star THEN Tail(rest) ELSE rest)

FoldCase(c) == IF c = "I" THEN "i" ELSE IF c = "N" THEN "n" ELSE c

AtomMatches(item, c, ci) ==
    item.any \/ (IF ci THEN FoldCase(item.c) = FoldCase(c) ELSE item.c = c)

RECURSIVE MatchHere(_, _, _)
MatchHere(items, s, ci) ==
    IF items = <<>> THEN TRUE
    ELSE IF Head(items).star
    THEN \E k \in 0..Len(s) :
            /\ \A i \in 1..k : AtomMatches(Head(items), s[i], ci)
            /\ MatchHere(Tail(items), SubSeq(s, k + 1, Len(s)), ci)
    ELSE /\ s # <<>>
         /\ AtomMatches(Head(items), Head(s), ci)
         /\ MatchHere(Tail(items), Tail(s), ci)

RegexSearch(p, s, ci) ==
    \E i \in 0..Len(s) : MatchHere(RegexItems(p), SubSeq(s, i + 1, Len(s)), ci)

\* A predicate the server rejects: $regex with a pattern that is no string.
BadPredicate(pred) ==
    /\ pred.t = "obj"
    /\ "$regex" \in DOMAIN pred.o
    /\ pred.o["$regex"].t # "str"

\* One operator of a predicate object against a field's value.
MatchOperator(x, op, arg, pred) ==
    CASE op = "$eq" -> ValueEqual(x, arg)
      [] op = "$ne" -> ~ValueEqual(x, arg)
      [] op = "$gt" -> TypeRank(x) = TypeRank(arg) /\ ValueLess(arg, x)
      [] op = "$gte" -> TypeRank(x) = TypeRank(arg) /\ ~ValueLess(x, arg)
      [] op = "$lt" -> TypeRank(x) = TypeRank(arg) /\ ValueLess(x, arg)
      [] op = "$lte" -> TypeRank(x) = TypeRank(arg) /\ ~ValueLess(arg, x)
      [] op = "$in" -> \E i \in 1..Len(arg.a) : ValueEqual(x, arg.a[i])
      [] op = "$nin" -> \A i \in 1..Len(arg.a) : ~ValueEqual(x, arg.a[i])
      [] op = "$exists" -> (x # Undef) = ~Falsy(arg)
      [] op = "$regex" ->
            /\ x.t = "str"
            /\ RegexSearch(arg.s, x.s,
                   "$options" \in DOMAIN pred.o /\ pred.o["$options"] = S(<<"i">>))
      [] OTHER -> TRUE

\* {field: pred} against a document: a predicate object applies each of its
\* operators, any other value is compared for equality.
MatchField(doc, f, pred) ==
    IF pred.t = "obj" /\ DOMAIN pred.o # {}
    THEN \A op \in DOMAIN pred.o : MatchOperator(FieldOf(doc, f), op, pred.o[op], pred)
    ELSE ValueEqual(FieldOf(doc, f), pred)

Matches(doc, filter) == \A f \in DOMAIN filter : MatchField(doc, f, filter[f])

BadFilter(filter) == \E f \in DOMAIN filter : BadPredicate(filter[f])

\* The subsequence of docs that satisfy keep.
RECURSIVE SelectDocs(_, _)
SelectDocs(docs, filter) ==
    IF docs = <<>> THEN <<>>
    ELSE (IF Matches(Head(docs), filter) THEN <<Head(docs)>> ELSE <<>>)
         \o SelectDocs(Tail(docs), filter)

-----------------------------------------------------------------------------
(* The document store: aggregation stages *)

Stage(op, arg) == [op |-> op, arg |-> arg]

Failed == [ok |-> FALSE]

Docs(docs) == [ok |-> TRUE, docs |-> docs]

\* m / unit rounded to the nearest integer, a tie to the even one ($round).
RoundHalfEven(m, unit) ==
    LET q == m \div unit
        r == m % unit
    IN IF 2 * r < unit THEN q
       ELSE IF 2 * r > unit THEN q + 1
       ELSE IF q % 2 = 0 THEN q ELSE q + 1

\* An aggregation expression of the model: a field path, a number, or
\* $multiply, $round (to 0 places) or $divide of two expressions. An operand
\* that is no number yields null.
RECURSIVE EvalExpr(_, _)
EvalExpr(doc, e) ==
    CASE e.t = "path" -> FieldOf(doc, e.p)
      [] e.t = "obj" /\ DOMAIN e.o = {"$multiply"} ->
            LET a == EvalExpr(doc, e.o["$multiply"].a[1])
                b == EvalExpr(doc, e.o["$multiply"].a[2])
            IN IF IsNumber(a) /\ IsNumber(b)
               THEN Dec((Thousandths(a) * Thousandths(b)) \div 1000) ELSE Null
      [] e.t = "obj" /\ DOMAIN e.o = {"$round"} ->
            LET a == EvalExpr(doc, e.o["$round"].a[1])
            IN IF IsNumber(a) THEN Dec(RoundHalfEven(Thousandths(a), 1000) * 1000) ELSE Null
      [] e.t = "obj" /\ DOMAIN e.o = {"$divide"} ->
            LET a == EvalExpr(doc, e.o["$divide"].a[1])
                b == EvalExpr(doc, e.o["$divide"].a[2])
            IN IF IsNumber(a) /\ IsNumber(b)
               THEN Dec((Thousandths(a) * 1000) \div Thousandths(b)) ELSE Null
      [] OTHER -> e

\* a comes strictly before b under the ordered sort keys.
RECURSIVE SortsBefore(_, _, _)
SortsBefore(a, b, keys) ==
    IF keys = <<>> THEN FALSE
    ELSE LET x == FieldOf(a, Head(keys).key)
             y == FieldOf(b, Head(keys).key)
         IN IF ValueLess(x, y) THEN Head(keys).dir = 1
            ELSE IF ValueLess(y, x) THEN Head(keys).dir = 0 - 1
            ELSE SortsBefore(a, b, Tail(keys))

\* The orders in which a sort may return docs: every permutation in which no
\* document comes after one it sorts strictly before (ties fall either way).
SortedOrders(docs, keys) ==
    {s \in {[i \in 1..Len(docs) |-> docs[p[i]]] : p \in Permutations(1..Len(docs))} :
        \A i, j \in 1..Len(s) : i < j => ~SortsBefore(s[j], s[i], keys)}

\* The sort keys of a $sort argument, or <<>> when the server rejects it. The
\* sort objects of the model hold one key.
SortKeys(arg) ==
    IF /\ arg.t = "obj"
       /\ Cardinality(DOMAIN arg.o) = 1
       /\ \A k \in DOMAIN arg.o : arg.o[k] \in {N(1), N(0 - 1)}
    THEN LET k == CHOOSE k \in DOMAIN arg.o : TRUE
         IN <<[key |-> k, dir |-> arg.o[k].n]>>
    ELSE <<>>

RECURSIVE SumOf(_, _)
SumOf(docs, e) ==
    IF docs = <<>> THEN 0
    ELSE (IF IsNumber(EvalExpr(Head(docs), e)) THEN Thousandths(EvalExpr(Head(docs), e)) ELSE 0)
         + SumOf(Tail(docs), e)

\* The documents of d's partition that the window [unbounded, current] holds:
\* those ordered at or before d.
RECURSIVE WindowOf(_, _, _)
WindowOf(docs, d, arg) ==
    IF docs = <<>> THEN <<>>
    ELSE (IF /\ ValueEqual(EvalExpr(Head(docs), arg.o["partitionBy"]),
                           EvalExpr(d, arg.o["partitionBy"]))
             /\ ~SortsBefore(d, Head(docs), arg.o["sortBy"].keys)
          THEN <<Head(docs)>> ELSE <<>>)
         \o WindowOf(Tail(docs), d, arg)

\* $setWindowFields with one output field, a $sum over [unbounded, current].
SetWindowFields(docs, arg) ==
    LET out == CHOOSE k \in DOMAIN arg.o["output"].o : TRUE
        e == arg.o["output"].o[out].o["$sum"]
        withSum == [i \in 1..Len(docs) |->
                       Put(docs[i], out, Dec(SumOf(WindowOf(docs, docs[i], arg), e)))]
    IN CHOOSE s \in SortedOrders(withSum,
                       <<[key |-> arg.o["partitionBy"].p, dir |-> 1]>> \o arg.o["sortBy"].keys) :
           TRUE

AddFields(docs, arg) ==
    LET k == CHOOSE k \in DOMAIN arg.o : TRUE
    IN [i \in 1..Len(docs) |-> Put(docs[i], k, EvalExpr(docs[i], arg.o[k]))]

\* $project with exclusions only.
Project(docs, arg) ==
    [i \in 1..Len(docs) |-> [k \in (DOMAIN docs[i]) \ (DOMAIN arg.o) |-> docs[i][k]]]

\* The outcomes a stage may have on docs: a $sort has one per order of its ties.
StageResults(docs, stage) ==
    CASE stage.op = "$match" ->
            IF BadFilter(stage.arg.o) THEN {Failed}
            ELSE {Docs(SelectDocs(docs, stage.arg.o))}
      [] stage.op = "$addFields" -> {Docs(AddFields(docs, stage.arg))}
      [] stage.op = "$setWindowFields" -> {Docs(SetWindowFields(docs, stage.arg))}
      [] stage.op = "$project" -> {Docs(Project(docs, stage.arg))}
      [] stage.op = "$sort" ->
            IF SortKeys(stage.arg) = <<>> THEN {Failed}
            ELSE {Docs(s) : s \in SortedOrders(docs, SortKeys(stage.arg))}
      [] stage.op = "$skip" ->
            IF stage.arg.t = "num" /\ stage.arg.n >= 0
            THEN {Docs(SubSeq(docs, stage.arg.n + 1, Len(docs)))} ELSE {Failed}
      [] stage.op = "$limit" ->
            IF stage.arg.t = "num" /\ stage.arg.n > 0
            THEN {Docs(SubSeq(docs, 1, IF stage.arg.n < Len(docs) THEN stage.arg.n ELSE Len(docs)))}
            ELSE {Failed}
      [] OTHER -> {Failed}

\* Model.aggregate(pipeline).exec() on a collection.
RECURSIVE Aggregate(_, _)
Aggregate(docs, pipeline) ==
    IF pipeline = <<>> THEN {Docs(docs)}
    ELSE UNION {IF r.ok THEN Aggregate(r.docs, Tail(pipeline)) ELSE {r} :
                    r \in StageResults(docs, Head(pipeline))}

\* Model.countDocuments(filter): the count, or -1 when the server rejects the filter.
CountDocuments(docs, filter) ==
    IF BadFilter(filter) THEN 0 - 1 ELSE Len(SelectDocs(docs, filter))

-----------------------------------------------------------------------------
(* GET /:collectionName (routes/crud.js) *)

\* Lines 178-182.
AmountToCentsStage ==
    Stage("$addFields",
          Obj1("amountCents",
               Obj1("$round", A(<<Obj1("$multiply", A(<<Path("amount"), N(100)>>)), N(0)>>))))

\* Lines 183-194.
RunningSumStage ==
    Stage("$setWindowFields",
          O(Put(Put(Put(<<>>,
              "partitionBy", Path("accountId")),
              "sortBy", SortSpec(<<[key |-> "date", dir |-> 1], [key |-> "id", dir |-> 1]>>)),
              "output", Obj1("balanceCents",
                             Obj2("$sum", Path("amountCents"),
                                  "window", Obj1("documents",
                                                 A(<<S(<<"u", "n", "b", "o", "u", "n", "d", "e", "d">>),
                                                     S(<<"c", "u", "r", "r", "e", "n", "t">>)>>)))))))

\* Lines 195-199.
CentsToBalanceStage ==
    Stage("$addFields", Obj1("balance", Obj1("$divide", A(<<Path("balanceCents"), N(100)>>))))

\* Lines 200-205.
DropCentsStage == Stage("$project", Obj2("amountCents", N(0), "balanceCents", N(0)))

balanceCalculationStages ==
    <<AmountToCentsStage, RunningSumStage, CentsToBalanceStage, DropCentsStage>>

\* Lines 168-172: the scope of the balance.
initialMatchForBalance(userId, userFilter) ==
    IF "accountId" \in DOMAIN userFilter /\ ~Falsy(userFilter["accountId"])
    THEN Put(Put(<<>>, "userId", S(userId)), "accountId", userFilter["accountId"])
    ELSE Put(<<>>, "userId", S(userId))

\* A pipeline that filters before it computes the balance.
FilterFirstPipeline(userId, userFilter) ==
    <<Stage("$match", O(userFilter))>> \o balanceCalculationStages
    \o <<Stage("$match", O(userFilter))>>

buildTransactionsPipeline(userId, userFilter) ==
    <<Stage("$match", O(initialMatchForBalance(userId, userFilter)))>>
    \o balanceCalculationStages
    \o <<Stage("$match", O(userFilter))>>

\* The query parameter of a request that carries none.
NoParam == [present |-> FALSE]

\* Line 225: the query parameter is a string that is not empty.
Param(text) == [present |-> TRUE, text |-> text]

NoOptions == [sort |-> Undef, limit |-> Undef, skip |-> Undef]

\* Lines 237-243: the handler's own restriction of the filter.
OwnFilter(filter, collectionName, uid) ==
    IF collectionName # "users"
    THEN IF "userId" \in DOMAIN filter /\ filter["userId"] # Null THEN filter
         ELSE Put(filter, "userId", S(uid))
    ELSE Put(filter, "id", S(uid))

\* Stages that are appended whatever the option holds.
CommonStagesUnguarded(options) ==
    <<Stage("$sort", options.sort), Stage("$skip", options.skip),
      Stage("$limit", options.limit)>>

\* Lines 254-271.
CommonStages(options) ==
    (IF ~Falsy(options.sort) THEN <<Stage("$sort", options.sort)>> ELSE <<>>)
    \o (IF ~Falsy(options.skip) THEN <<Stage("$skip", options.skip)>> ELSE <<>>)
    \o (IF ~Falsy(options.limit) THEN <<Stage("$limit", options.limit)>> ELSE <<>>)

\* Lines 245-271.
ListPipeline(collectionName, uid, filter, options) ==
    (IF collectionName = "transactions" THEN buildTransactionsPipeline(uid, filter)
     ELSE <<Stage("$match", O(filter))>>)
    \o CommonStages(options)

\* An answer that blames the server.
ListFailure(msg) == [status |-> 500, msg |-> msg]

\* Lines 230-232.
ListBadRequest(msg) == [status |-> 400, msg |-> msg]

ListServerError(filter, options, pipeline) ==
    [status |-> 500, filter |-> filter, options |-> options, pipeline |-> pipeline]

\* Lines 277-284.
ListOk(documents, total, filter, options, pipeline) ==
    [status |-> 200, data |-> documents, total |-> total,
     limit |-> IF ~Falsy(options.limit) THEN options.limit ELSE N(total),
     offset |-> IF ~Falsy(options.skip) THEN options.skip ELSE N(0),
     filter |-> filter, options |-> options, pipeline |-> pipeline]

\* Lines 218-289: the answers the handler may give (one per outcome of the
\* aggregation) to a request of uid on a collection holding docs.
ListAnswers(docs, collectionName, uid, param) ==
    LET parsed == IF param.present THEN parseStructuredQuery(param.text, uid)
                  ELSE Returned(<<>>, NoOptions)
    IN IF ~parsed.ok THEN {ListBadRequest(parsed.error)}
       ELSE LET filter == OwnFilter(parsed.filter, collectionName, uid)
                options == parsed.options
                pipeline == ListPipeline(collectionName, uid, filter, options)
                total == CountDocuments(docs, filter)
            IN {IF r.ok /\ total >= 0
                THEN ListOk(r.docs, total, filter, options, pipeline)
                ELSE ListServerError(filter, options, pipeline) :
                    r \in Aggregate(docs, pipeline)}

-----------------------------------------------------------------------------
(* POST /:collectionName and the collections *)

Collections == {"transactions", "accounts", "users"}

EmptyStore == [c \in Collections |-> <<>>]

\* limitsMiddleware: the record limits of the free tier.
collectionLimits ==
    [users |-> 1, transactions |-> 50, accounts |-> 3, budgets |-> 3,
     categories |-> 3, goals |-> 3, subscriptions |-> 3]

\* The id field's default: ulid(), which grows with the time of creation.
IdOf(k) == S(<<"d">> \o DigitsOf(k))

\* limitsMiddleware: the request of a free-tier principal is let through.
WithinLimit(docs, collectionName, uid) ==
    collectionName \in DOMAIN collectionLimits =>
        Len(SelectDocs(docs, Put(<<>>, "userId", S(uid)))) < collectionLimits[collectionName]

\* Lines 329-334: the document that is saved for a request body.
NewDocument(body, uid, k) ==
    LET owned == IF Falsy(FieldOf(body, "userId")) THEN Put(body, "userId", S(uid)) ELSE body
    IN IF "id" \in DOMAIN owned THEN owned ELSE Put(owned, "id", IdOf(k))

\* The most documents a collection holds in the model.
MaxDocs == 3

\* The amount of the k-th ledger entry of the model, in thousandths:
\* 10.10, -0.05, 5.00, 0.015, and again.
Amounts == <<10100, 0 - 50, 5000, 15>>

AmountOf(k) == Dec(Amounts[((k - 1) % Len(Amounts)) + 1])

\* The entries a principal posts: the first principal into two accounts on two
\* dates, the second into the first account (the same accountId value).
LedgerBodies(uid, k) ==
    {[accountId |-> S(a), date |-> N(d), amount |-> AmountOf(k)] :
        a \in (IF uid = U1 THEN {StrA1, StrA2} ELSE {StrA1}),
        d \in (IF uid = U1 THEN {1, 2} ELSE {1})}

\* POST /:collectionName by a free-tier principal, limitsMiddleware included.
CreateDocument(uid, collectionName, body) ==
    /\ lreq = NoRequest
    /\ Len(store[collectionName]) < MaxDocs
    /\ WithinLimit(store[collectionName], collectionName, uid)
    /\ store' = [store EXCEPT ![collectionName] = Append(@, NewDocument(body, uid, nextOid))]
    /\ nextOid' = nextOid + 1
    /\ UNCHANGED <<lreq, lres, registry, clock, qres, calls, compileVars, writeVars>>

\* GET /:collectionName
ListCollection(uid, collectionName, param) ==
    /\ lreq = NoRequest
    /\ lreq' = [active |-> TRUE, uid |-> uid, collectionName |-> collectionName, param |-> param]
    /\ lres' \in ListAnswers(store[collectionName], collectionName, uid, param)
    /\ UNCHANGED <<store, queryVars, compileVars, writeVars>>

IdleCompile == cq = NoCall /\ cres = NotCalled

-----------------------------------------------------------------------------
(* SpecBalance: a ledger that grows entry by entry, listed with the queries *)
(* that narrow the returned set                                            *)

WithOptions(conds, lim, off, so) == Query(A(conds), Absent, Absent, lim, off, Undef, so)

BalanceQueries ==
    {WithOptions(<<>>, Undef, Undef, Undef),
     WithOptions(<<Cond("accountId", "==", S(StrA1))>>, Undef, Undef, Undef),
     WithOptions(<<Cond("accountId", "in", A(<<S(StrA1), S(StrA2)>>))>>, Undef, Undef, Undef),
     WithOptions(<<Cond("accountId", "==", N(0))>>, Undef, Undef, Undef),
     WithOptions(<<Cond("date", ">", N(1))>>, Undef, Undef, Undef),
     WithOptions(<<Cond("date", ">", N(1))>>, N(1), Undef, Undef),
     WithOptions(<<Cond("accountId", "==", S(StrA2)), Cond("date", "<=", N(1))>>,
                 Undef, Undef, Undef),
     WithOptions(<<Cond("userId", "!=", S(U2))>>, Undef, Undef, Undef),
     WithOptions(<<>>, N(1), Undef, Undef),
     WithOptions(<<>>, Undef, N(1), Undef),
     WithOptions(<<>>, N(1), N(1), Obj1("date", N(1)))}

BalanceParams == {NoParam} \cup {Param(Text(q)) : q \in BalanceQueries}

InitBalance ==
    /\ store = EmptyStore
    /\ lreq = NoRequest
    /\ lres = NoListResult
    /\ IdleCompile
    /\ IdleWrites
    /\ IdleQueries

NextBalance ==
    \/ \E uid \in Uids : \E body \in LedgerBodies(uid, nextOid) :
            CreateDocument(uid, "transactions", body)
    \/ \E uid \in Uids : \E param \in BalanceParams :
            ListCollection(uid, "transactions", param)

SpecBalance == InitBalance /\ [][NextBalance]_vars

-----------------------------------------------------------------------------
(* The running balance of the listed ledger entries *)

Ledger == store["transactions"]

\* A listing of the transactions collection has been answered with documents.
LedgerListed ==
    /\ lreq # NoRequest
    /\ lreq.collectionName = "transactions"
    /\ lres.status = 200

\* The integer cents of an entry: its amount times 100, rounded to an integer
\* (the amounts of the model are thousandths, so a half rounds to the even cent).
CentsOf(e) ==
    LET m == e["amount"].m
        q == m \div 10
        r == m % 10
    IN IF r > 5 \/ (r = 5 /\ q % 2 = 1) THEN q + 1 ELSE q

\* Entry e comes no later than entry d in the order by (date, id).
NotAfter(e, d) ==
    \/ e["date"].n < d["date"].n
    \/ e["date"].n = d["date"].n /\ (e["id"] = d["id"] \/ StrLess(e["id"].s, d["id"].s))

RECURSIVE CentsUpTo(_, _, _)
\* The cents of the principal's entries of d's account that come no later than d.
CentsUpTo(entries, uid, d) ==
    IF entries = <<>> THEN 0
    ELSE LET e == Head(entries)
         IN (IF /\ e["userId"] = S(uid)
                /\ e["accountId"] = d["accountId"]
                /\ NotAfter(e, d)
             THEN CentsOf(e) ELSE 0) + CentsUpTo(Tail(entries), uid, d)

\* C2: every listed ledger entry carries as balance the sum of the integer
\* cents of the caller's entries of the same account ordered no later than it
\* by (date, id), divided by 100, whatever the filter, skip or limit returned.
C2_BalanceOverFullHistory ==
    LedgerListed =>
        \A i \in 1..Len(lres.data) :
            LET d == lres.data[i]
            IN /\ "balance" \in DOMAIN d
               /\ d["balance"] = Dec(10 * CentsUpTo(Ledger, lreq.uid, d))

GoldenEntry(k) == [accountId |-> S(StrA1), date |-> N(1), amount |-> AmountOf(k)]

\* The ledger 10.10, -0.05, 5.00 of one account, listed through a filter and a
\* limit that return the last entry alone, with the balance 15.05.
C2_Witness ==
    /\ LedgerListed
    /\ lreq.uid = U1
    /\ Len(Ledger) = 3
    /\ \A k \in 1..3 : Ledger[k] = NewDocument(GoldenEntry(k), U1, k)
    /\ lreq.param = Param(Text(WithOptions(<<>>, N(1), Undef, Undef)))
    /\ Len(lres.data) = 1
    /\ lres.data[1]["id"] = IdOf(3)
    /\ lres.data[1]["balance"] = Dec(15050)

-----------------------------------------------------------------------------
(* SpecList: the listing of collections that hold documents of two principals *)

\* Conditions of list requests: on the account, on the owner, on a value, on
\* the balance the transactions pipeline computes.
ListConds ==
    {Cond("accountId", "==", S(StrA1)), Cond("accountId", "==", N(0)),
     Cond("accountId", "in", A(<<S(StrA1), S(StrA2)>>)),
     Cond("userId", "==", S(U2)), Cond("userId", "!=", S(U2)),
     Cond("date", ">", N(1)), Cond("date", "==", S(<<"1">>)), Cond("date", "~", N(1)),
     Cond("balance", ">", N(0))}

ListQueries ==
    OptionQueries \cup {ConditionsOnly(A(cs)) : cs \in CondSeqs(ListConds, MaxConds)}

ListParams ==
    {NoParam, Param(InvalidText), Param(Text(Null))} \cup {Param(Text(q)) : q \in ListQueries}

RECURSIVE Posted(_, _, _)
\* The collection after the principals of owners post bodies[1], bodies[2], ...
Posted(owners, bodies, k) ==
    IF bodies = <<>> THEN <<>>
    ELSE <<NewDocument(Head(bodies), Head(owners), k)>>
         \o Posted(Tail(owners), Tail(bodies), k + 1)

Entry(a, d, k) == [accountId |-> S(a), date |-> N(d), amount |-> AmountOf(k)]

FilledStore ==
    [c \in Collections |->
        CASE c = "transactions" ->
               Posted(<<U1, U1, U2>>,
                      <<Entry(StrA1, 1, 1), Entry(StrA2, 2, 2), Entry(StrA1, 1, 3)>>, 1)
          [] c = "accounts" ->
               Posted(<<U1, U2>>, <<[date |-> N(1), qty |-> N(7)], [date |-> N(2), qty |-> N(3)]>>, 4)
          [] c = "users" ->
               <<[id |-> S(U1), date |-> N(1)], [id |-> S(U2), date |-> N(2)]>>]

InitList ==
    /\ store \in {EmptyStore, FilledStore}
    /\ lreq = NoRequest
    /\ lres = NoListResult
    /\ IdleCompile
    /\ IdleWrites
    /\ IdleQueries

NextList ==
    \E uid \in Uids : \E collectionName \in Collections : \E param \in ListParams :
        ListCollection(uid, collectionName, param)

SpecList == InitList /\ [][NextList]_vars

-----------------------------------------------------------------------------
(* The order of the stages of a list pipeline *)

\* A list request was compiled and its pipeline built (and run or rejected).
PipelineBuilt == lreq # NoRequest /\ lres.status \in {200, 500}

\* The filter the compiler returned for the request, before the handler
\* restricted it to the caller.
CompiledFilter ==
    IF lreq.param.present THEN parseStructuredQuery(lreq.param.text, lreq.uid).filter
    ELSE <<>>

\* The filter the handler ends with holds every compiled predicate, restricted
\* to the caller.
FullFilter(f) ==
    /\ \A k \in DOMAIN CompiledFilter : k \in DOMAIN f /\ (k \notin {"userId", "id"} => f[k] = CompiledFilter[k])
    /\ DOMAIN f \subseteq DOMAIN CompiledFilter \cup {"userId", "id"}
    /\ IF lreq.collectionName = "users" THEN f["id"] = S(lreq.uid) ELSE "userId" \in DOMAIN f

\* The scope the claim gives the balance: the caller, plus the account
\* predicate when the filter f has one.
BalanceScope(scope, f) ==
    /\ scope.t = "obj"
    /\ DOMAIN scope.o = {"userId"} \cup (DOMAIN f \cap {"accountId"})
    /\ scope.o["userId"] = S(lreq.uid)
    /\ "accountId" \in DOMAIN f => scope.o["accountId"] = f["accountId"]

\* The four stages that compute the balance, recognised by what they write.
BalanceStages(p) ==
    /\ p[1].op = "$addFields" /\ DOMAIN p[1].arg.o = {"amountCents"}
    /\ p[2].op = "$setWindowFields"
    /\ p[2].arg.o["partitionBy"] = Path("accountId")
    /\ p[2].arg.o["sortBy"] = SortSpec(<<[key |-> "date", dir |-> 1], [key |-> "id", dir |-> 1]>>)
    /\ DOMAIN p[2].arg.o["output"].o = {"balanceCents"}
    /\ p[3].op = "$addFields" /\ DOMAIN p[3].arg.o = {"balance"}
    /\ p[4].op = "$project" /\ DOMAIN p[4].arg.o = {"amountCents", "balanceCents"}

\* C1: the transactions pipeline starts with a match on the caller (plus the
\* account predicate when the compiled filter has one), then the four balance
\* stages, and only then the match on the full filter.
C1_ScopeBalanceThenFilter ==
    (PipelineBuilt /\ lreq.collectionName = "transactions") =>
        LET p == lres.pipeline IN
        /\ Len(p) >= 6
        /\ p[1].op = "$match" /\ BalanceScope(p[1].arg, lres.filter)
        /\ BalanceStages(SubSeq(p, 2, 5))
        /\ p[6] = Stage("$match", O(lres.filter))
        /\ FullFilter(lres.filter)
        /\ \A i \in 7..Len(p) : p[i].op # "$match"

\* The position of a pagination stage in the order sort, skip, limit.
PageRank(op) == CASE op = "$sort" -> 1 [] op = "$skip" -> 2 [] op = "$limit" -> 3 [] OTHER -> 0

PageOption(op) ==
    CASE op = "$sort" -> lres.options.sort
      [] op = "$skip" -> lres.options.skip
      [] op = "$limit" -> lres.options.limit

\* The request keys an option is read from are all absent, null or 0.
KeysAbsentNullOrZero(op) ==
    LET q == IF lreq.param.present /\ lreq.param.text.json.t = "query"
             THEN lreq.param.text.json ELSE DefaultQuery
        none == {Undef, Null, N(0)}
    IN CASE op = "$skip" -> q.startAfter \in none /\ q.offsetCount \in none
         [] op = "$limit" -> q.limitCount \in none

\* C6: a list pipeline is the scope and balance stages (transactions only),
\* one match on the full filter, then sort, skip, limit in this order, each
\* only for an option that is present and not null; an absent, null or 0 skip
\* or limit gives no stage.
C6_ListStageOrder ==
    PipelineBuilt =>
        LET p == lres.pipeline
            m == IF lreq.collectionName = "transactions" THEN 6 ELSE 1
        IN /\ Len(p) >= m
           /\ p[m] = Stage("$match", O(lres.filter))
           /\ FullFilter(lres.filter)
           /\ m = 6 => (p[1].op = "$match" /\ BalanceStages(SubSeq(p, 2, 5)))
           /\ \A i \in (m + 1)..Len(p) :
                /\ PageRank(p[i].op) > 0
                /\ p[i].arg = PageOption(p[i].op)
                /\ p[i].arg \notin {Undef, Null}
                /\ \A j \in (i + 1)..Len(p) : PageRank(p[i].op) < PageRank(p[j].op)
           /\ \A op \in {"$skip", "$limit"} :
                (PageOption(op) \in {Undef, Null, N(0)} \/ KeysAbsentNullOrZero(op))
                    => \A i \in 1..Len(p) : p[i].op # op

\* A listing of accounts sorted by date with offsetCount 2 and limitCount 0:
\* the pipeline is match, sort, skip, and no limit stage.
C6_Witness ==
    /\ PipelineBuilt
    /\ lreq.collectionName = "accounts"
    /\ lreq.param = Param(Text(Query(Undef, Absent, Absent, N(0), N(2), Undef, Obj1("date", N(1)))))
    /\ Len(lres.pipeline) = 3
    /\ lres.pipeline[2] = Stage("$sort", Obj1("date", N(1)))
    /\ lres.pipeline[3] = Stage("$skip", N(2))

-----------------------------------------------------------------------------
(* The named-query routes: parameter substitution *)

\* The spelling of the property names the model looks up by a computed key.
Spelling ==
    [userId |-> <<"u", "s", "e", "r", "I", "d">>,
     qty |-> <<"q", "t", "y">>,
     x |-> <<"x">>,
     constructor |-> <<"c", "o", "n", "s", "t", "r", "u", "c", "t", "o", "r">>,
     toString |-> <<"t", "o", "S", "t", "r", "i", "n", "g">>,
     length |-> <<"l", "e", "n", "g", "t", "h">>]

\* The property name a string spells; "?" for a name no object of the model has.
KeyNamed(chars) ==
    IF \E k \in DOMAIN Spelling : Spelling[k] = chars
    THEN CHOOSE k \in DOMAIN Spelling : Spelling[k] = chars
    ELSE "?"

\* params[key]: an own property first, then the prototype chain.
GetProp(params, key) ==
    CASE params.t = "obj" /\ key \in DOMAIN params.o -> params.o[key]
      [] params.t = "arr" /\ key = "length" -> N(Len(params.a))
      [] params.t = "str" /\ key = "length" -> N(Len(params.s))
      [] params.t \in {"obj", "arr", "str", "num", "bool"} /\ key \in ProtoNames -> Fn(key)
      [] OTHER -> Undef

Open == <<"{", "{">>

Close == <<"}", "}">>

\* Line 192: the test for a placeholder leaf.
IsPlaceholder(v) == v.t = "str" /\ StartsWith(v.s, Open) /\ EndsWith(v.s, Close)

\* Line 193: obj[key].slice(2, -2)
paramKey(v) == SubSeq(v.s, 3, Len(v.s) - 2)

Placeholder(name) == S(Open \o Spelling[name] \o Close)

RECURSIVE replaceInObject(_, _)
\* Lines 190-201: obj after the loop over its keys. A string or a number has
\* no property the loop changes.
replaceInObject(obj, params) ==
    LET replaced(v) ==
            IF IsPlaceholder(v)
            THEN IF GetProp(params, KeyNamed(paramKey(v))) # Undef
                 THEN GetProp(params, KeyNamed(paramKey(v))) ELSE v
            ELSE IF v.t \in {"obj", "arr"} THEN replaceInObject(v, params)
            ELSE v
    IN CASE obj.t = "obj" -> O([k \in DOMAIN obj.o |-> replaced(obj.o[k])])
         [] obj.t = "arr" -> A([i \in 1..Len(obj.a) |-> replaced(obj.a[i])])
         [] OTHER -> obj

RECURSIVE JsonCopy(_)
\* JSON.parse(JSON.stringify(v)): a property that holds undefined or a function
\* is dropped, such an array element becomes null, and so does NaN or Infinity.
JsonCopy(v) ==
    CASE v.t = "obj" ->
            O([k \in {j \in DOMAIN v.o : v.o[j].t \notin {"undef", "fn"}} |-> JsonCopy(v.o[k])])
      [] v.t = "arr" ->
            A([i \in 1..Len(v.a) |->
                 IF v.a[i].t \in {"undef", "fn"} THEN Null ELSE JsonCopy(v.a[i])])
      [] v.t \in {"nan", "inf"} -> Null
      [] OTHER -> v

\* Lines 189-206, for a pipeline that is an array.
replaceParametersInPipeline(pipeline, params) ==
    LET newPipeline == JsonCopy(pipeline)
    IN A([i \in 1..Len(newPipeline.a) |-> replaceInObject(newPipeline.a[i], params)])

\* Lines 96-105: the stages the options of the request append.
OptionStages(options) ==
    (IF ~Falsy(options.sort) THEN <<Obj1("$sort", options.sort)>> ELSE <<>>)
    \o (IF ~Falsy(options.skip) THEN <<Obj1("$skip", options.skip)>> ELSE <<>>)
    \o (IF ~Falsy(options.limit) THEN <<Obj1("$limit", options.limit)>> ELSE <<>>)

\* Lines 89-105: the pipeline that is executed for a stored array pipeline.
executionPipeline(stored, params, options) ==
    LET copy == JsonCopy(stored)
        substituted == IF ~Falsy(params) /\ KeysLength(params) > 0
                       THEN replaceParametersInPipeline(copy, params)
                       ELSE copy
    IN A(substituted.a \o OptionStages(options))

RECURSIVE HasFunction(_)
HasFunction(v) ==
    CASE v.t = "fn" -> TRUE
      [] v.t = "obj" -> \E k \in DOMAIN v.o : HasFunction(v.o[k])
      [] v.t = "arr" -> \E i \in 1..Len(v.a) : HasFunction(v.a[i])
      [] OTHER -> FALSE

\* A stage of a pipeline value as the store reads it.
ToStage(v) ==
    IF v.t = "obj" /\ Cardinality(DOMAIN v.o) = 1
    THEN LET op == CHOOSE k \in DOMAIN v.o : TRUE IN Stage(op, v.o[op])
    ELSE Stage("?", v)

\* Model.aggregate(pipeline).exec() for a pipeline value. What the driver does
\* with a function in a pipeline is not in this repository: it may reject the
\* pipeline, or serialise it without the property (as JsonCopy drops it).
AggregateValue(docs, pipeline) ==
    IF HasFunction(pipeline)
    THEN {Failed} \cup Aggregate(docs, [i \in 1..Len(pipeline.a) |-> ToStage(JsonCopy(pipeline.a[i]))])
    ELSE Aggregate(docs, [i \in 1..Len(pipeline.a) |-> ToStage(pipeline.a[i])])

-----------------------------------------------------------------------------
(* The named-query routes: the registry *)

\* A request body of POST /api/queries; name, pipeline and description are
\* Undef when the key is missing, collectionName is "" then.
RegisterBody(name, pipeline, description, collectionName) ==
    [name |-> name, pipeline |-> pipeline, description |-> description,
     collectionName |-> collectionName]

\* A lookup that finds no record.
FindNone(reg, name) == 0

\* QueryModel.findOne({name}): the position of the first record of that name, or 0.
FindOne(reg, name) ==
    IF \E i \in 1..Len(reg) : reg[i].name = name
    THEN CHOOSE i \in 1..Len(reg) : reg[i].name = name /\ \A j \in 1..(i - 1) : reg[j].name # name
    ELSE 0

\* An update that also restarts createdAt.
RecreatedQuery(existingQuery, body, now) ==
    [existingQuery EXCEPT !.pipeline = body.pipeline, !.description = body.description,
                          !.collectionName = body.collectionName, !.updatedAt = now,
                          !.createdAt = now]

\* Lines 32-39: the record after existingQuery.set(...) and save().
UpdatedQuery(existingQuery, body, now) ==
    [existingQuery EXCEPT !.pipeline = body.pipeline, !.description = body.description,
                          !.collectionName = body.collectionName, !.updatedAt = now]

\* Lines 44-53: the record that is inserted. The timestamps option of the
\* schema gives a new record its createdAt as updatedAt.
NewQuery(body, now, k) ==
    [id |-> IdOf(k), name |-> body.name, pipeline |-> body.pipeline,
     description |-> body.description, collectionName |-> body.collectionName,
     createdAt |-> now, updatedAt |-> now]

RemoveAt(reg, i) == SubSeq(reg, 1, i - 1) \o SubSeq(reg, i + 1, Len(reg))

BadRequest(op) == [op |-> op, status |-> 400]

\* An answer that is no 404.
ServerError(op, name) == [op |-> op, status |-> 500, name |-> name]

NotFound(op, name) == [op |-> op, status |-> 404, name |-> name, msg |-> "Query not found."]

\* The most register and delete requests of a behaviour.
MaxWrites == 2

\* POST /api/queries
Register(body) ==
    /\ clock <= MaxWrites
    /\ clock' = clock + 1
    /\ IF Falsy(body.name) \/ Falsy(body.pipeline) \/ body.collectionName = ""
       THEN /\ qres' = BadRequest("register")
            /\ UNCHANGED <<registry, nextOid>>
       ELSE LET i == FindOne(registry, body.name) IN
            IF i # 0
            THEN /\ registry' = [registry EXCEPT ![i] = UpdatedQuery(@, body, clock)]
                 /\ qres' = [op |-> "register", status |-> 200, body |-> body,
                             existingQuery |-> registry[i], query |-> registry'[i]]
                 /\ UNCHANGED nextOid
            ELSE /\ registry' = Append(registry, NewQuery(body, clock, nextOid))
                 /\ qres' = [op |-> "register", status |-> 201, body |-> body,
                             query |-> NewQuery(body, clock, nextOid)]
                 /\ nextOid' = nextOid + 1
    /\ UNCHANGED <<calls, listVars, compileVars, writeVars>>

\* DELETE /api/queries/:name
Delete(name) ==
    /\ clock <= MaxWrites
    /\ clock' = clock + 1
    /\ LET i == FindOne(registry, name) IN
       IF i = 0
       THEN /\ qres' = NotFound("delete", name)
            /\ UNCHANGED registry
       ELSE /\ registry' = RemoveAt(registry, i)
            /\ qres' = [op |-> "delete", status |-> 200, deletedQuery |-> registry[i]]
    /\ UNCHANGED <<nextOid, calls, listVars, compileVars, writeVars>>

\* The stored record takes the pipeline that was executed.
SubstitutedStored(reg, i, executed) == [reg EXCEPT ![i].pipeline = executed]

\* Lines 66-122: the stored records after an execution (nothing is saved).
StoredAfterExecute(reg, i, executed) == reg

\* Lines 66-122: the answers to an execution (one per outcome of the
\* aggregation); pipeline is what Model.aggregate was called with, envelope
\* is the body of the answer (lines 111-113).
ExecuteAnswers(reg, stored, name, params, options) ==
    LET i == FindOne(reg, name) IN
    IF i = 0 THEN {NotFound("execute", name)}
    ELSE IF reg[i].pipeline.t # "arr"
    THEN {[op |-> "execute", status |-> 500, name |-> name, params |-> params]}
    ELSE LET pipeline == executionPipeline(reg[i].pipeline, params, options)
             docs == IF reg[i].collectionName \in DOMAIN stored
                     THEN stored[reg[i].collectionName] ELSE <<>>
         IN {IF r.ok
             THEN [op |-> "execute", status |-> 200, name |-> name, params |-> params,
                   options |-> options, pipeline |-> pipeline, envelope |-> [result |-> r.docs]]
             ELSE [op |-> "execute", status |-> 500, name |-> name, params |-> params,
                   options |-> options, pipeline |-> pipeline] :
                 r \in AggregateValue(docs, pipeline)}

\* POST /api/queries/:name/execute; params and options that are missing from
\* the body take the default {} (line 70).
Execute(name, params, options) ==
    /\ qres' \in ExecuteAnswers(registry, store, name,
                                IF params = Undef THEN EmptyObj ELSE params, options)
    /\ registry' = (LET i == FindOne(registry, name) IN
                    IF i # 0 /\ qres'.status # 404 /\ "pipeline" \in DOMAIN qres'
                    THEN StoredAfterExecute(registry, i, qres'.pipeline) ELSE registry)
    /\ UNCHANGED <<clock, nextOid, calls, listVars, compileVars, writeVars>>

\* GET /api/queries/:name
GetQuery(name) ==
    /\ qres' = (LET i == FindOne(registry, name) IN
                IF i = 0 THEN NotFound("get", name)
                ELSE [op |-> "get", status |-> 200, query |-> registry[i]])
    /\ UNCHANGED <<registry, clock, nextOid, calls, listVars, compileVars, writeVars>>

-----------------------------------------------------------------------------
(* SpecQueries: named queries are registered, deleted, read and executed, *)
(* one request after the other                                            *)

Q1 == S(<<"q", "1">>)

Q2 == S(<<"q", "2">>)

QueryNames == {Q1, Q2}

\* The template of the counted orders of a user.
OrdersTemplate ==
    A(<<Obj1("$match", Obj2("userId", Placeholder("userId"),
                           "qty", Obj1("$gt", Placeholder("qty"))))>>)

\* A template with placeholders inside an array, one of them named constructor.
TagsTemplate ==
    A(<<Obj1("$match", Obj2("userId", Placeholder("userId"),
                           "qty", Obj1("$in", A(<<Placeholder("x"), Placeholder("constructor")>>))))>>)

\* A template without placeholders.
PlainTemplate ==
    A(<<Obj1("$match", Obj1("date", N(1))), Obj1("$sort", Obj1("id", N(1)))>>)

Templates == {OrdersTemplate, TagsTemplate, PlainTemplate}

RegisterBodies ==
    {RegisterBody(n, p, Undef, "accounts") : n \in QueryNames, p \in Templates}
    \cup {RegisterBody(Q1, OrdersTemplate, S(StrAb), "transactions"),
          RegisterBody(Q1, Undef, Undef, "accounts"),
          RegisterBody(Q2, S(StrAb), Undef, "accounts")}

ExecuteParams ==
    {Undef, EmptyObj,
     Obj2("userId", S(U1), "qty", N(5)),
     Obj2("userId", S(U2), "qty", S(Str25)),
     Obj1("x", N(1)),
     Obj1("qty", Null)}

ExecuteOptions == {NoOptions, [sort |-> Undef, skip |-> Undef, limit |-> N(1)]}

InitQueries ==
    /\ store = FilledStore
    /\ lreq = NoRequest
    /\ lres = NoListResult
    /\ IdleCompile
    /\ IdleWrites
    /\ IdleQueries

NextQueries ==
    \/ \E body \in RegisterBodies : Register(body)
    \/ \E name \in QueryNames : Delete(name)
    \/ \E name \in QueryNames : \E params \in ExecuteParams : \E options \in ExecuteOptions :
            Execute(name, params, options)
    \/ \E name \in QueryNames : GetQuery(name)

SpecQueries == InitQueries /\ [][NextQueries]_vars

-----------------------------------------------------------------------------
(* Substitution, as the executed pipeline shows it *)

\* An execution found its query and built the pipeline it ran.
Executed == qres.status \in {200, 500} /\ qres.op = "execute" /\ "pipeline" \in DOMAIN qres

\* The stored template of the executed query.
TemplateOf(name) == registry[FindOne(registry, name)].pipeline

\* A string leaf that is exactly one placeholder token.
ExactPlaceholder(v) ==
    /\ IsPlaceholder(v)
    /\ \A i \in 1..Len(paramKey(v)) : paramKey(v)[i] \notin {"{", "}"}

\* The name of a placeholder is a key of the params mapping.
InParams(v, params) == params.t = "obj" /\ KeyNamed(paramKey(v)) \in DOMAIN params.o

RECURSIVE SubstitutedFrom(_, _, _)
\* e is the template t with params[name] at every leaf that is exactly
\* {{name}} for a name in params, and every other leaf as in t.
SubstitutedFrom(t, e, params) ==
    CASE ExactPlaceholder(t) /\ InParams(t, params) -> e = params.o[KeyNamed(paramKey(t))]
      [] t.t = "obj" ->
            /\ e.t = "obj" /\ DOMAIN e.o = DOMAIN t.o
            /\ \A k \in DOMAIN t.o : SubstitutedFrom(t.o[k], e.o[k], params)
      [] t.t = "arr" ->
            /\ e.t = "arr" /\ Len(e.a) = Len(t.a)
            /\ \A i \in 1..Len(t.a) : SubstitutedFrom(t.a[i], e.a[i], params)
      [] OTHER -> e = t

RECURSIVE UnmatchedKept(_, _, _)
\* e has the literal placeholder text wherever the template t has a
\* placeholder whose name is no key of params.
UnmatchedKept(t, e, params) ==
    CASE ExactPlaceholder(t) -> InParams(t, params) \/ e = t
      [] t.t = "obj" ->
            /\ e.t = "obj" /\ DOMAIN e.o = DOMAIN t.o
            /\ \A k \in DOMAIN t.o : UnmatchedKept(t.o[k], e.o[k], params)
      [] t.t = "arr" ->
            /\ e.t = "arr" /\ Len(e.a) = Len(t.a)
            /\ \A i \in 1..Len(t.a) : UnmatchedKept(t.a[i], e.a[i], params)
      [] OTHER -> TRUE

RECURSIVE HasUnmatched(_, _)
HasUnmatched(t, params) ==
    CASE ExactPlaceholder(t) -> ~InParams(t, params)
      [] t.t = "obj" -> \E k \in DOMAIN t.o : HasUnmatched(t.o[k], params)
      [] t.t = "arr" -> \E i \in 1..Len(t.a) : HasUnmatched(t.a[i], params)
      [] OTHER -> FALSE

\* The stages of the executed pipeline that come from the template.
TemplatePart(name) ==
    A(SubSeq(qres.pipeline.a, 1, Len(TemplateOf(name).a)))

\* C7: the executed pipeline has params[name] at every string leaf of the
\* stored template that is exactly {{name}} with name in params, with the type
\* of the param value, and every other leaf unchanged.
C7_SubstitutesNamedLeaves ==
    Executed =>
        /\ Len(qres.pipeline.a) >= Len(TemplateOf(qres.name).a)
        /\ SubstitutedFrom(TemplateOf(qres.name), TemplatePart(qres.name), qres.params)

\* C8: a placeholder whose name is no key of params stays in the executed
\* pipeline as its literal text, and the execution raises no error.
C8_UnmatchedPlaceholderKept ==
    (Executed /\ HasUnmatched(TemplateOf(qres.name), qres.params)) =>
        /\ Len(qres.pipeline.a) >= Len(TemplateOf(qres.name).a)
        /\ UnmatchedKept(TemplateOf(qres.name), TemplatePart(qres.name), qres.params)
        /\ qres.status = 200

\* C9: an execution changes no stored record, whatever it substitutes.
C9_ExecuteKeepsTemplate ==
    [][(qres'.status # 0 /\ qres'.op = "execute") => registry' = registry]_vars

\* An execution substituted both placeholders of the orders template, and the
\* stored record still holds the placeholders.
C9_Witness ==
    /\ Executed
    /\ qres.status = 200
    /\ qres.params = Obj2("userId", S(U1), "qty", N(5))
    /\ TemplateOf(qres.name) = OrdersTemplate
    /\ qres.pipeline =
         A(<<Obj1("$match", Obj2("userId", S(U1), "qty", Obj1("$gt", N(5))))>>)

NamesOf(reg) == {reg[i].name : i \in 1..Len(reg)}

AtMostOnePerName(reg) ==
    \A i, j \in 1..Len(reg) : reg[i].name = reg[j].name => i = j

\* The step of a register request that was accepted: an upsert by name.
Upserted ==
    LET body == qres'.body
        i == FindOne(registry, body.name)
        j == FindOne(registry', body.name)
    IN IF body.name \notin NamesOf(registry)
       THEN /\ Len(registry') = Len(registry) + 1
            /\ SubSeq(registry', 1, Len(registry)) = registry
            /\ j = Len(registry')
            /\ registry'[j].pipeline = body.pipeline
            /\ registry'[j].description = body.description
            /\ registry'[j].collectionName = body.collectionName
            /\ registry'[j].createdAt = clock
            /\ registry'[j].updatedAt = clock
       ELSE /\ Len(registry') = Len(registry)
            /\ \A k \in 1..Len(registry) : k # i => registry'[k] = registry[k]
            /\ registry'[i] = [registry[i] EXCEPT !.pipeline = body.pipeline,
                                                  !.description = body.description,
                                                  !.collectionName = body.collectionName,
                                                  !.updatedAt = clock]

\* C10: register creates the record of a new name with createdAt = updatedAt =
\* now, and overwrites pipeline, description, collectionName and updatedAt of
\* the record of a known name; after any sequence of register and delete
\* requests the registry holds at most one record per name.
C10_RegisterIsUpsert ==
    [][/\ (clock' # clock /\ qres'.op = "register" /\ qres'.status \in {200, 201}) => Upserted
       /\ AtMostOnePerName(registry')]_vars

\* A name was registered, and registered again later with another pipeline:
\* one record, with the later pipeline and the earlier createdAt.
C10_Witness ==
    /\ qres.status = 200
    /\ qres.op = "register"
    /\ Len(registry) = 1
    /\ registry[1].pipeline = PlainTemplate
    /\ registry[1].createdAt = 1
    /\ registry[1].updatedAt = 2

-----------------------------------------------------------------------------
(* SpecRace: two POST /api/queries requests in flight; each is a lookup *)
(* (line 29) and, after its await, a save (line 39 or 53)               *)

\* A request that has not looked up its name yet.
Arrived(body) == [pc |-> "lookup", body |-> body, found |-> FALSE]

\* Line 29: the request after findOne resolved, holding the record it loaded.
LookedUp(call, reg) ==
    LET i == FindOne(reg, call.body.name) IN
    IF i = 0 THEN [call EXCEPT !.pc = "save"]
    ELSE [pc |-> "save", body |-> call.body, found |-> TRUE, existingQuery |-> reg[i]]

\* The position in reg of the record a loaded document was read from, or 0.
PositionOf(reg, doc) ==
    IF \E i \in 1..Len(reg) : reg[i].id = doc.id
    THEN CHOOSE i \in 1..Len(reg) : reg[i].id = doc.id
    ELSE 0

\* Lines 32-39: existingQuery.set(...) marks the paths whose value changes, and
\* save() writes the marked paths to the stored record of the loaded document.
SavedUpdate(current, loaded, body, now) ==
    [f \in DOMAIN current |->
        CASE f = "updatedAt" -> now
          [] f \in {"pipeline", "description", "collectionName"} /\ body[f] # loaded[f] -> body[f]
          [] OTHER -> current[f]]

\* The request p looks up its name (lines 21-29).
LookupStep(p) ==
    /\ calls[p].pc = "lookup"
    /\ IF Falsy(calls[p].body.name) \/ Falsy(calls[p].body.pipeline)
          \/ calls[p].body.collectionName = ""
       THEN /\ calls' = [calls EXCEPT ![p].pc = "done"]
            /\ qres' = BadRequest("register")
       ELSE /\ calls' = [calls EXCEPT ![p] = LookedUp(@, registry)]
            /\ UNCHANGED qres
    /\ UNCHANGED <<registry, clock, nextOid, listVars, compileVars, writeVars>>

\* The request p saves what its lookup decided (lines 30-54).
SaveStep(p) ==
    /\ calls[p].pc = "save"
    /\ calls' = [calls EXCEPT ![p].pc = "done"]
    /\ clock' = clock + 1
    /\ IF calls[p].found
       THEN LET i == PositionOf(registry, calls[p].existingQuery) IN
            /\ registry' =
                 [registry EXCEPT ![i] = SavedUpdate(@, calls[p].existingQuery, calls[p].body, clock)]
            /\ qres' = [op |-> "register", status |-> 200, body |-> calls[p].body,
                        existingQuery |-> calls[p].existingQuery, query |-> registry'[i]]
            /\ UNCHANGED nextOid
       ELSE /\ registry' = Append(registry, NewQuery(calls[p].body, clock, nextOid))
            /\ qres' = [op |-> "register", status |-> 201, body |-> calls[p].body,
                        query |-> NewQuery(calls[p].body, clock, nextOid)]
            /\ nextOid' = nextOid + 1
    /\ UNCHANGED <<listVars, compileVars, writeVars>>

RaceBodies ==
    {RegisterBody(Q1, p, d, c) :
        p \in {OrdersTemplate, PlainTemplate}, d \in {Undef, S(StrAb)},
        c \in {"accounts", "transactions"}}
    \cup {RegisterBody(Q2, OrdersTemplate, Undef, "accounts"),
          RegisterBody(Q1, Undef, Undef, "accounts")}

\* The registry before the two requests: empty, or holding the first name.
RaceRegistries ==
    {<<>>, <<NewQuery(RegisterBody(Q1, TagsTemplate, Undef, "accounts"), 1, 1)>>}

InitRace ==
    /\ store = EmptyStore
    /\ lreq = NoRequest
    /\ lres = NoListResult
    /\ IdleCompile
    /\ IdleWrites
    /\ registry \in RaceRegistries
    /\ clock = Len(registry) + 1
    /\ nextOid = Len(registry) + 1
    /\ qres = NoResponse
    /\ calls \in {<<Arrived(a), Arrived(b)>> : a, b \in RaceBodies}

NextRace ==
    \/ \E p \in {1, 2} : LookupStep(p)
    \/ \E p \in {1, 2} : SaveStep(p)

SpecRace == InitRace /\ [][NextRace]_vars

BothDone == Len(calls) = 2 /\ calls[1].pc = "done" /\ calls[2].pc = "done"

\* The record holds the pipeline, description and collectionName of the body.
HoldsContentOf(record, body) ==
    /\ record.pipeline = body.pipeline
    /\ record.description = body.description
    /\ record.collectionName = body.collectionName

\* Two accepted requests for one name.
SameNameRace ==
    /\ Len(calls) = 2
    /\ calls[1].body.name = calls[2].body.name
    /\ \A p \in {1, 2} : ~Falsy(calls[p].body.pipeline)

\* C11: however the lookups and saves of two register requests for one name
\* interleave, the registry ends with exactly one record of that name, holding
\* the pipeline, description and collectionName of one of the two requests.
C11_LastWriterWins ==
    (SameNameRace /\ BothDone) =>
        /\ Cardinality({i \in 1..Len(registry) : registry[i].name = calls[1].body.name}) = 1
        /\ \E p \in {1, 2} :
              HoldsContentOf(registry[FindOne(registry, calls[1].body.name)], calls[p].body)

-----------------------------------------------------------------------------
(* Requests for a name that has no record *)

\* The name a get, delete or execute request was made for, read off its answer.
TargetOf(response) ==
    CASE "name" \in DOMAIN response -> response.name
      [] "query" \in DOMAIN response -> response.query.name
      [] "deletedQuery" \in DOMAIN response -> response.deletedQuery.name

\* The step answers a get, delete or execute for a name without a record.
MissingNameStep ==
    /\ qres'.status # 0
    /\ qres'.op \in {"get", "delete", "execute"}
    /\ TargetOf(qres') \notin NamesOf(registry)

\* C12: get, delete and execute for a name that has no record answer 404
\* 'Query not found.', run no pipeline and leave the registry unchanged.
C12_MissingNameNotFound ==
    [][MissingNameStep =>
          /\ qres'.status = 404
          /\ qres'.msg = "Query not found."
          /\ "pipeline" \notin DOMAIN qres' /\ "envelope" \notin DOMAIN qres'
          /\ registry' = registry]_vars

\* An execution of the second name was answered 404 while the registry holds
\* the first name alone.
C12_Witness ==
    /\ qres = NotFound("execute", Q2)
    /\ NamesOf(registry) = {Q1}

-----------------------------------------------------------------------------
(* The answer of a successful execution *)

\* The stages of the executed pipeline that follow the template's.
AppendedStages == SubSeq(qres.pipeline.a, Len(TemplateOf(qres.name).a) + 1, Len(qres.pipeline.a))

\* The stages the options of the request stand for, in the order sort, skip, limit.
RequestedStages(options) ==
    LET stage(op, v) == IF Falsy(v) THEN <<>> ELSE <<Obj1(op, v)>>
    IN stage("$sort", options.sort) \o stage("$skip", options.skip) \o stage("$limit", options.limit)

\* C13: a successful execution answers {result, metadata: {total,
\* executedPipeline, queryName}}; executedPipeline is the substituted template
\* followed by the sort, skip and limit stages of the request options, and
\* queryName is the requested name.
C13_ExecutionEnvelope ==
    (Executed /\ qres.status = 200) =>
        /\ DOMAIN qres.envelope = {"result", "metadata"}
        /\ DOMAIN qres.envelope.metadata = {"total", "executedPipeline", "queryName"}
        /\ qres.envelope.metadata.total = Len(qres.envelope.result)
        /\ qres.envelope.metadata.executedPipeline = qres.pipeline
        /\ AppendedStages = RequestedStages(qres.options)
        /\ qres.envelope.metadata.queryName = qres.name

-----------------------------------------------------------------------------
(* Registering the same content again *)

\* The step accepts a register request whose name has a record that holds the
\* request's pipeline, description and collectionName already.
SameContentStep ==
    /\ clock' # clock
    /\ qres'.op = "register"
    /\ qres'.status \in {200, 201}
    /\ \E i \in 1..Len(registry) :
          registry[i].name = qres'.body.name /\ HoldsContentOf(registry[i], qres'.body)

\* C14: registering a name again with the same pipeline, description and
\* collectionName leaves these, the name and createdAt as they were; only
\* updatedAt advances, and the name keeps its one record.
C14_ReRegisterKeepsContent ==
    [][SameContentStep =>
          LET i == FindOne(registry, qres'.body.name) IN
          /\ Len(registry') = Len(registry)
          /\ \A k \in 1..Len(registry) : k # i => registry'[k] = registry[k]
          /\ registry'[i] = [registry[i] EXCEPT !.updatedAt = registry'[i].updatedAt]
          /\ registry'[i].updatedAt > registry[i].updatedAt
          /\ Cardinality({k \in 1..Len(registry') : registry'[k].name = qres'.body.name}) = 1]_vars

\* The orders template was registered at time 1 and again, unchanged, at time 2.
C14_Witness ==
    /\ qres.status = 200
    /\ qres.op = "register"
    /\ HoldsContentOf(qres.existingQuery, qres.body)
    /\ qres.body.pipeline = OrdersTemplate
    /\ Len(registry) = 1
    /\ registry[1].pipeline = OrdersTemplate
    /\ registry[1].createdAt = 1
    /\ registry[1].updatedAt = 2

-----------------------------------------------------------------------------
(* Comparison operators on one field *)

Comparisons == {"!=", ">", ">=", "<", "<="}

\* The compiled query is a list of two conditions on one field, with two
\* distinct comparison operators.
TwoComparisons ==
    /\ cres.done
    /\ cq.text.valid
    /\ cq.text.json.t = "query"
    /\ cq.text.json.conditions.t = "arr"
    /\ LET cs == cq.text.json.conditions.a IN
       /\ Len(cs) = 2
       /\ \A i \in 1..2 : WellFormed(cs[i]) /\ cs[i].operator \in Comparisons
       /\ cs[1].field = cs[2].field
       /\ cs[1].operator # cs[2].operator

\* The number a numeric string of the model spells.
AsNumber(v) == IF v = S(Str25) THEN N(25) ELSE IF v = S(Str50) THEN N(50) ELSE v

\* C15: two distinct comparison operators on one field, whatever the field,
\* compile to one predicate object holding both, the values '25' and '50' as
\* the numbers 25 and 50: (f, '>', '25') and (f, '<', '50') in either order
\* give {f: {$gt: 25, $lt: 50}}.
C15_ComparisonsAccumulate ==
    TwoComparisons =>
        LET cs == cq.text.json.conditions.a
            f == cs[1].field
        IN /\ cres.out.ok
           /\ DOMAIN cres.out.filter = {f}
           /\ cres.out.filter[f].t = "obj"
           /\ DOMAIN cres.out.filter[f].o = {opMap[cs[1].operator], opMap[cs[2].operator]}
           /\ \A i \in 1..2 : cres.out.filter[f].o[opMap[cs[i].operator]] = AsNumber(cs[i].value)

-----------------------------------------------------------------------------
(* The coercion of condition values *)

\* The string spells a finite number in full: an optional sign and digits.
SpellsFiniteNumber(s) ==
    LET digits == IF s # <<>> /\ s[1] \in {"-", "+"} THEN Tail(s) ELSE s
    IN digits # <<>> /\ \A i \in 1..Len(digits) : digits[i] \in {"0", "1", "2", "3", "4", "5", "6", "7", "8", "9"}

\* What the value of a condition is compiled as: the number a string spells in
\* full, the boolean 'true' or 'false' names, and any other value itself.
CoercedAs(v) ==
    IF v.t # "str" THEN v
    ELSE IF SpellsFiniteNumber(v.s)
    THEN LET digits == IF v.s[1] \in {"-", "+"} THEN Tail(v.s) ELSE v.s
         IN N(IF v.s[1] = "-" THEN 0 - DigitsValue(digits) ELSE DigitsValue(digits))
    ELSE IF v.s = <<"t", "r", "u", "e">> THEN B(TRUE)
    ELSE IF v.s = <<"f", "a", "l", "s", "e">> THEN B(FALSE)
    ELSE v

\* The field's predicate holds pv as the value of the condition c.
HoldsValue(c, pred, pv) ==
    CASE c.operator \in {"in", "nin", "array-contains-any"} ->
            pred.t = "obj" /\ opMap[c.operator] \in DOMAIN pred.o
            /\ pred.o[opMap[c.operator]] = (IF pv.t = "arr" THEN pv ELSE A(<<pv>>))
      [] c.operator \in {"==", "array-contains"} \/ c.operator \notin DOMAIN opMap -> pred = pv
      [] OTHER ->
            pred.t = "obj" /\ opMap[c.operator] \in DOMAIN pred.o
            /\ pred.o[opMap[c.operator]] = pv

\* The compiled query is one well-formed condition on a field the compiler
\* does not force, with an operator that takes any value.
OneCondition ==
    /\ cres.done
    /\ cq.text.valid
    /\ cq.text.json.t = "query"
    /\ cq.text.json.conditions.t = "arr"
    /\ Len(cq.text.json.conditions.a) = 1
    /\ WellFormed(cq.text.json.conditions.a[1])
    /\ cq.text.json.conditions.a[1].field \notin {"userId"} \cup ProtoNames
    /\ cq.text.json.conditions.a[1].operator # "like"

\* C16: a string value that spells a finite number in full is compiled as that
\* number, 'true' and 'false' as booleans, and every other string ('', '5a',
\* 'Infinity') and every value that is no string is compiled unchanged.
C16_ValueCoercion ==
    OneCondition =>
        LET c == cq.text.json.conditions.a[1] IN
        /\ cres.out.ok
        /\ DOMAIN cres.out.filter = {c.field}
        /\ HoldsValue(c, cres.out.filter[c.field], CoercedAs(c.value))

-----------------------------------------------------------------------------
(* Malformed conditions *)

\* The condition lacks field, lacks operator, or has an undefined value.
Malformed(c) == c.field = "" \/ c.operator = "" \/ c.value = Undef

RECURSIVE WithoutMalformed(_)
WithoutMalformed(cs) ==
    IF cs = <<>> THEN <<>>
    ELSE (IF Malformed(Head(cs)) THEN <<>> ELSE <<Head(cs)>>) \o WithoutMalformed(Tail(cs))

\* The compiled query is a list of conditions, one of them malformed.
HasMalformed ==
    /\ cres.done
    /\ cq.text.valid
    /\ cq.text.json.t = "query"
    /\ cq.text.json.conditions.t = "arr"
    /\ \A i \in 1..Len(cq.text.json.conditions.a) : cq.text.json.conditions.a[i] # Null
    /\ \E i \in 1..Len(cq.text.json.conditions.a) : Malformed(cq.text.json.conditions.a[i])

\* C17: a condition that lacks field, lacks operator or has an undefined value
\* is dropped without error: the list compiles to what it compiles to without
\* its malformed conditions.
C17_MalformedDropped ==
    HasMalformed =>
        cres.out =
            parseStructuredQuery(
                Text([cq.text.json EXCEPT
                        !.conditions = A(WithoutMalformed(cq.text.json.conditions.a))]),
                cq.uid)

-----------------------------------------------------------------------------
(* A list request with a query that is no JSON *)

-----------------------------------------------------------------------------
(* Pagination and sort options *)

\* A query object was compiled.
OptionsCompiled ==
    /\ cres.done
    /\ cq.text.valid
    /\ cq.text.json.t = "query"
    /\ cres.out.ok

\* The value is there and parses to an integer.
ParsesToInteger(v) == v \notin {Undef, Null} /\ JsParseInt(v) # NaN

\* C19: a startAfter that parses to an integer is the skip whatever
\* offsetCount is; without such a startAfter the skip is offsetCount when it
\* is present (an offsetCount that is no integer skips nothing), and no skip
\* is set when offsetCount is absent too.
C19_PaginationPrecedence ==
    OptionsCompiled =>
        LET q == cq.text.json
            skip == cres.out.options.skip
        IN  IF ParsesToInteger(q.startAfter) THEN skip = JsParseInt(q.startAfter)
            ELSE IF ParsesToInteger(q.offsetCount) THEN skip = JsParseInt(q.offsetCount)
            ELSE IF q.offsetCount \notin {Undef, Null} THEN Falsy(skip)
            ELSE skip = Undef

\* startAfter 5 together with offsetCount 2 skips 5.
C19_Witness ==
    /\ OptionsCompiled
    /\ cq.text.json.startAfter = N(5)
    /\ cq.text.json.offsetCount = N(2)
    /\ cres.out.options.skip = N(5)

-----------------------------------------------------------------------------
(* like *)

\* The compiled query is one like condition with a string value on a field
\* the compiler does not force.
OneLike ==
    /\ cres.done
    /\ cq.text.valid
    /\ cq.text.json.t = "query"
    /\ cq.text.json.conditions.t = "arr"
    /\ Len(cq.text.json.conditions.a) = 1
    /\ WellFormed(cq.text.json.conditions.a[1])
    /\ cq.text.json.conditions.a[1].operator = "like"
    /\ cq.text.json.conditions.a[1].field \notin {"userId"} \cup ProtoNames
    /\ cq.text.json.conditions.a[1].value.t = "str"

\* The strings a pattern is tried on.
LikeSubjects ==
    {<<>>, StrAbc, StrAb, <<"x", "a", "b", "c", "x">>, <<"a", ".", "b">>, <<"a", "x", "b">>,
     <<"x", "a", ".", "b">>, <<"a", "*">>, <<"a", "a">>, <<"a">>,
     <<"a", ".", "b", "*", "c">>, <<"a", ".", "b", "c">>, <<"\\">>, <<"N">>, <<"n", "x">>,
     Str25, <<"1", "2", "5", "x">>, <<"2">>, StrTrue, <<"5", "a">>, <<"5">>}

RECURSIVE Folded(_)
Folded(s) == IF s = <<>> THEN <<>> ELSE <<FoldCase(Head(s))>> \o Folded(Tail(s))

\* C21: like with a string value v compiles to a case-insensitive pattern,
\* wrapped in .* on both ends, that matches exactly the strings containing v
\* as a literal substring.
C21_LikeMatchesSubstring ==
    OneLike =>
        LET c == cq.text.json.conditions.a[1] IN
        /\ cres.out.ok
        /\ c.field \in DOMAIN cres.out.filter
        /\ LET pred == cres.out.filter[c.field] IN
           /\ pred.t = "obj"
           /\ DOMAIN pred.o = {"$regex", "$options"}
           /\ pred.o["$options"] = S(<<"i">>)
           /\ pred.o["$regex"].t = "str"
           /\ StartsWith(pred.o["$regex"].s, <<".", "*">>)
           /\ EndsWith(pred.o["$regex"].s, <<".", "*">>)
           /\ \A s \in LikeSubjects :
                RegexSearch(pred.o["$regex"].s, s, TRUE) <=> Contains(Folded(s), Folded(c.value.s))

-----------------------------------------------------------------------------
(* The rules of the operators *)

\* The compiled query is a list of conditions.
ListCompiled ==
    /\ cres.done
    /\ cq.text.valid
    /\ cq.text.json.t = "query"
    /\ cq.text.json.conditions.t = "arr"
    /\ \A i \in 1..Len(cq.text.json.conditions.a) : cq.text.json.conditions.a[i] # Null

\* The outcome of compiling the conditions before the last one.
Earlier ==
    LET cs == cq.text.json.conditions.a IN
    parseStructuredQuery(Text(ConditionsOnly(A(SubSeq(cs, 1, Len(cs) - 1)))), cq.uid)

\* The last condition of the list.
LastCondition == cq.text.json.conditions.a[Len(cq.text.json.conditions.a)]

\* The value the last condition is compiled with.
LastValue == CoerceValue(ConditionValue(LastCondition, cq.uid))

\* The last condition is well-formed, has one of the operators ops, and the
\* conditions before it compile.
LastHas(ops) ==
    /\ ListCompiled
    /\ Len(cq.text.json.conditions.a) >= 1
    /\ LastCondition.field # ""
    /\ LastCondition.operator \in ops
    /\ LastCondition.operator # ""
    /\ ConditionValue(LastCondition, cq.uid) # Undef
    /\ Earlier.ok

\* The predicate pred holds every operator of the earlier predicate but op.
KeepsEarlier(pred, earlier, op) ==
    earlier.t = "obj" =>
        \A k \in DOMAIN earlier.o \ {op} : k \in DOMAIN pred.o /\ pred.o[k] = earlier.o[k]

\* C22: == on a field without a predicate compiles to the value itself; == on
\* a field that has a predicate keeps the predicate and merges $eq with the
\* value into it.
C22_EqualityRule ==
    LastHas({"=="}) =>
        LET f == LastCondition.field IN
        /\ cres.out.ok
        /\ f \in DOMAIN cres.out.filter
        /\ IF f \notin DOMAIN Earlier.filter THEN cres.out.filter[f] = LastValue
           ELSE /\ cres.out.filter[f].t = "obj"
                /\ "$eq" \in DOMAIN cres.out.filter[f].o
                /\ cres.out.filter[f].o["$eq"] = LastValue
                /\ KeepsEarlier(cres.out.filter[f], Earlier.filter[f], "$eq")


Membership == {"in", "nin", "array-contains-any"}

\* C23: in, nin and array-contains-any compile to a membership operator whose
\* operand is an array, the value's own elements or the one scalar value, and
\* the operator is merged into the predicate the field already has.
C23_MembershipOperand ==
    LastHas(Membership) =>
        LET f == LastCondition.field
            op == opMap[LastCondition.operator]
        IN  /\ cres.out.ok
            /\ f \in DOMAIN cres.out.filter
            /\ cres.out.filter[f].t = "obj"
            /\ op \in DOMAIN cres.out.filter[f].o
            /\ cres.out.filter[f].o[op] =
                   (IF LastValue.t = "arr" THEN LastValue ELSE A(<<LastValue>>))
            /\ f \in DOMAIN Earlier.filter => KeepsEarlier(cres.out.filter[f], Earlier.filter[f], op)


\* C24: right after an array-contains, regex or like condition is compiled,
\* the field's predicate is the value itself (array-contains) or the pattern
\* with the case-insensitive option and nothing else (regex, like): no
\* operator of an earlier condition on the field is left in it.
C24_Overwrite ==
    (LastHas({"array-contains", "regex", "like"}) /\ cres.out.ok) =>
        LET f == LastCondition.field
            op == LastCondition.operator
        IN  /\ f \in DOMAIN cres.out.filter
            /\ cres.out.filter[f] =
                 (CASE op = "array-contains" -> LastValue
                    [] op = "regex" -> O(("$regex" :> LastValue) @@ ("$options" :> S(<<"i">>)))
                    [] op = "like" ->
                         O(("$regex" :> S(<<".", "*">> \o EscapeRegex(LastValue.s) \o <<".", "*">>))
                           @@ ("$options" :> S(<<"i">>))))

\* A range condition and then a regex on the same field: the range is gone.
C24_Witness ==
    /\ LastHas({"regex"})
    /\ cres.out.ok
    /\ Len(cq.text.json.conditions.a) = 2
    /\ cq.text.json.conditions.a[1] = Cond("age", ">", N(5))
    /\ LastCondition.field = "age"
    /\ "age" \in DOMAIN Earlier.filter
    /\ "$gt" \in DOMAIN Earlier.filter["age"].o
    /\ DOMAIN cres.out.filter["age"].o = {"$regex", "$options"}


\* C25: a well-formed condition whose operator is none of the supported ones
\* is no error: the field's filter value is the coerced value of the condition.
C25_UnknownOperatorIsEquality ==
    LastHas(STRING \ DOMAIN opMap) =>
        /\ cres.out.ok
        /\ LastCondition.field \in DOMAIN cres.out.filter
        /\ cres.out.filter[LastCondition.field] = LastValue

-----------------------------------------------------------------------------
(* Whose documents a list returns *)

\* The caller owns the document of the listed collection.
OwnedByCaller(doc) ==
    IF lreq.collectionName = "users"
    THEN "id" \in DOMAIN doc /\ doc["id"] = S(lreq.uid)
    ELSE "userId" \in DOMAIN doc /\ doc["userId"] = S(lreq.uid)

\* C26: every document a list request returns is owned by the caller,
\* whatever the query applies to userId or id.
C26_ListIsolation ==
    (lreq # NoRequest /\ lres.status = 200) =>
        \A i \in 1..Len(lres.data) : OwnedByCaller(lres.data[i])


\* The pipeline of the answer without its skip and limit stages.
Unpaged(pipeline) ==
    SelectSeq(pipeline, LAMBDA stage : stage.op \notin {"$skip", "$limit"})

\* C27: the total of a list answer, counted by the compiled filter, is the
\* number of documents the pipeline yields before its skip and limit stages.
C27_TotalCountsPipeline ==
    (lreq # NoRequest /\ lres.status = 200) =>
        \A r \in Aggregate(store[lreq.collectionName], Unpaged(lres.pipeline)) :
            r.ok => lres.total = Len(r.docs)

-----------------------------------------------------------------------------
(* The write handlers of the crud router (routes/crud.js) *)

WriteRequest(op, uid, collectionName, arg) ==
    [active |-> TRUE, op |-> op, uid |-> uid, collectionName |-> collectionName, arg |-> arg]

Answer(status) == [status |-> status]

\* What no write handler touches.
WriteFrame == UNCHANGED <<lreq, lres, registry, qres, calls, compileVars>>

\* The unique index on id: the collection holds a document with this id.
HasId(docs, id) == \E i \in 1..Len(docs) : FieldOf(docs[i], "id") = id

\* Model.findOne(filter): the position of the first match, or 0.
FindIndex(docs, filter) ==
    IF \E i \in 1..Len(docs) : Matches(docs[i], filter)
    THEN CHOOSE i \in 1..Len(docs) :
            Matches(docs[i], filter) /\ \A j \in 1..(i - 1) : ~Matches(docs[j], filter)
    ELSE 0

\* The documents of docs that do not satisfy filter.
RECURSIVE RejectDocs(_, _)
RejectDocs(docs, filter) ==
    IF docs = <<>> THEN <<>>
    ELSE (IF Matches(Head(docs), filter) THEN <<>> ELSE <<Head(docs)>>)
         \o RejectDocs(Tail(docs), filter)

\* The filter of the handlers that address one document: its id, and for
\* every collection but users the caller as owner.
queryFilter(collectionName, uid, id) ==
    IF collectionName # "users"
    THEN Put(Put(<<>>, "id", S(id)), "userId", S(uid))
    ELSE Put(<<>>, "id", S(id))

\* The users collection holds one document per principal, addressed by the
\* principal's id: another id is forbidden.
Forbidden(collectionName, uid, id) == collectionName = "users" /\ id # uid

\* POST /:collectionName, limitsMiddleware included, for a free-tier principal.
PostDocument(uid, collectionName, body) ==
    /\ clock <= MaxWrites
    /\ clock' = clock + 1
    /\ wreq' = WriteRequest("post", uid, collectionName, body)
    /\ IF ~WithinLimit(store[collectionName], collectionName, uid)
       THEN /\ wres' = Answer(403)
            /\ UNCHANGED <<store, nextOid>>
       ELSE LET doc == NewDocument(body, uid, nextOid) IN
            /\ nextOid' = nextOid + 1
            /\ IF HasId(store[collectionName], doc["id"])
               THEN /\ wres' = Answer(500)
                    /\ UNCHANGED store
               ELSE /\ store' = [store EXCEPT ![collectionName] = Append(@, doc)]
                    /\ wres' = [status |-> 201, documents |-> <<doc>>]
    /\ WriteFrame

\* Model.insertMany(documents, {ordered: false}): every document whose id is
\* free is inserted; k is the count of identifiers generated so far, plus one.
RECURSIVE InsertMany(_, _, _, _)
InsertMany(docs, bodies, uid, k) ==
    IF bodies = <<>> THEN docs
    ELSE LET doc == NewDocument(Head(bodies), uid, k) IN
         InsertMany(IF HasId(docs, doc["id"]) THEN docs ELSE Append(docs, doc),
                    Tail(bodies), uid, k + 1)

\* POST /:collectionName/batch, limitsMiddleware included; body is the parsed
\* request body.
PostBatch(uid, collectionName, body) ==
    /\ clock <= MaxWrites
    /\ clock' = clock + 1
    /\ wreq' = WriteRequest("postBatch", uid, collectionName, body)
    /\ IF ~WithinLimit(store[collectionName], collectionName, uid)
       THEN /\ wres' = Answer(403)
            /\ UNCHANGED <<store, nextOid>>
       ELSE IF body.t # "arr" \/ body.a = <<>>
       THEN /\ wres' = Answer(400)
            /\ UNCHANGED <<store, nextOid>>
       ELSE LET docs == InsertMany(store[collectionName], body.a, uid, nextOid)
                added == Len(docs) - Len(store[collectionName])
            IN  /\ nextOid' = nextOid + Len(body.a)
                /\ store' = [store EXCEPT ![collectionName] = docs]
                /\ wres' = IF added = Len(body.a)
                           THEN [status |-> 201,
                                 documents |-> SubSeq(docs, Len(docs) - added + 1, Len(docs))]
                           ELSE [status |-> 500, insertedCount |-> added]
    /\ WriteFrame

\* findOneAndUpdate(filter, body): the fields of the body are set on the document.
SetFields(doc, body) ==
    [k \in DOMAIN doc \cup DOMAIN body |-> IF k \in DOMAIN body THEN body[k] ELSE doc[k]]

\* PUT /:collectionName/:id
PutDocument(uid, collectionName, id, body) ==
    /\ clock <= MaxWrites
    /\ clock' = clock + 1
    /\ wreq' = WriteRequest("put", uid, collectionName, [id |-> id, body |-> body])
    /\ IF Forbidden(collectionName, uid, id)
       THEN /\ wres' = Answer(403)
            /\ UNCHANGED store
       ELSE LET i == FindIndex(store[collectionName], queryFilter(collectionName, uid, id)) IN
            IF i = 0
            THEN /\ wres' = Answer(404)
                 /\ UNCHANGED store
            ELSE /\ store' = [store EXCEPT ![collectionName][i] = SetFields(@, body)]
                 /\ wres' = [status |-> 200, documents |-> <<store'[collectionName][i]>>]
    /\ UNCHANGED nextOid
    /\ WriteFrame

\* {[`$${operation}`]: {[path]: data}} applied to a document: the document
\* after the update, or Failed when the server rejects it ($push on a field
\* that is no array, an operator it does not know).
updateOperation(doc, operation, path, data) ==
    CASE operation = "push" ->
           IF path \notin DOMAIN doc THEN [ok |-> TRUE, doc |-> Put(doc, path, A(<<data>>))]
           ELSE IF doc[path].t = "arr"
           THEN [ok |-> TRUE, doc |-> Put(doc, path, A(Append(doc[path].a, data)))]
           ELSE Failed
      [] operation = "set" -> [ok |-> TRUE, doc |-> Put(doc, path, data)]
      [] operation = "unset" ->
           [ok |-> TRUE, doc |-> [k \in DOMAIN doc \ {path} |-> doc[k]]]
      [] OTHER -> Failed

\* PATCH /:collectionName/:id/path; operation is Absent when the body names none.
PatchPath(uid, collectionName, id, path, data, operation) ==
    /\ clock <= MaxWrites
    /\ clock' = clock + 1
    /\ wreq' = WriteRequest("patch", uid, collectionName,
                            [id |-> id, path |-> path, data |-> data, operation |-> operation])
    /\ IF Forbidden(collectionName, uid, id)
       THEN /\ wres' = Answer(403)
            /\ UNCHANGED store
       ELSE LET i == FindIndex(store[collectionName], queryFilter(collectionName, uid, id)) IN
            IF i = 0
            THEN /\ wres' = Answer(404)
                 /\ UNCHANGED store
            ELSE LET r == updateOperation(store[collectionName][i],
                                          IF operation = Absent THEN "push" ELSE operation,
                                          path, data)
                 IN IF r.ok
                    THEN /\ store' = [store EXCEPT ![collectionName][i] = r.doc]
                         /\ wres' = [status |-> 200, documents |-> <<r.doc>>]
                    ELSE /\ wres' = Answer(500)
                         /\ UNCHANGED store
    /\ UNCHANGED nextOid
    /\ WriteFrame

\* DELETE /:collectionName/:id
DeleteDocument(uid, collectionName, id) ==
    /\ clock <= MaxWrites
    /\ clock' = clock + 1
    /\ wreq' = WriteRequest("delete", uid, collectionName, [id |-> id])
    /\ IF Forbidden(collectionName, uid, id)
       THEN /\ wres' = Answer(403)
            /\ UNCHANGED store
       ELSE LET i == FindIndex(store[collectionName], queryFilter(collectionName, uid, id)) IN
            IF i = 0
            THEN /\ wres' = Answer(404)
                 /\ UNCHANGED store
            ELSE /\ store' = [store EXCEPT ![collectionName] = RemoveAt(@, i)]
                 /\ wres' = Answer(204)
    /\ UNCHANGED nextOid
    /\ WriteFrame

\* Lines 433-447: the filter of deleteMany for the ids that are considered.
deleteFilter(collectionName, uid, considered) ==
    IF collectionName # "users"
    THEN Put(Put(<<>>, "id", Obj1("$in", A(considered))), "userId", S(uid))
    ELSE Put(<<>>, "id", Obj1("$in", A(considered)))

\* Lines 449-461: the answer after deleteMany left the documents remaining.
BatchDeleteAnswer(before, remaining, filter, considered) ==
    LET successCount == Len(before) - Len(remaining)
        foundDocs == SelectDocs(remaining, filter)
        foundIds == {FieldOf(foundDocs[i], "id") : i \in 1..Len(foundDocs)}
    IN [status |-> 200,
        successCount |-> successCount,
        errors |-> IF successCount # Len(considered)
                   THEN SelectSeq(considered, LAMBDA id : id \notin foundIds)
                   ELSE <<>>]

\* DELETE /:collectionName/batch; ids is the ids value of the parsed body.
DeleteBatch(uid, collectionName, ids) ==
    /\ clock <= MaxWrites
    /\ clock' = clock + 1
    /\ wreq' = WriteRequest("deleteBatch", uid, collectionName, ids)
    /\ IF ids.t # "arr" \/ ids.a = <<>>
       THEN /\ wres' = Answer(400)
            /\ UNCHANGED store
       ELSE LET considered == IF collectionName # "users" THEN ids.a
                              ELSE SelectSeq(ids.a, LAMBDA id : id = S(uid))
                filter == deleteFilter(collectionName, uid, considered)
                remaining == RejectDocs(store[collectionName], filter)
            IN IF considered = <<>>
               THEN /\ wres' = [status |-> 200, successCount |-> 0, errors |-> ids.a]
                    /\ UNCHANGED store
               ELSE /\ store' = [store EXCEPT ![collectionName] = remaining]
                    /\ wres' = BatchDeleteAnswer(store[collectionName], remaining,
                                                 filter, considered)
    /\ UNCHANGED nextOid
    /\ WriteFrame

-----------------------------------------------------------------------------
(* SpecWrites: two principals write to the filled collections *)

WriteCollections == {"accounts", "users"}

\* The first identifier that no document of FilledStore holds.
FreeOid == Len(FilledStore["transactions"]) + Len(FilledStore["accounts"]) + 1

\* The ids requests address: the stored documents' and one that is not stored.
StoredIds(collectionName) ==
    IF collectionName = "users" THEN Uids ELSE {IdOf(4).s, IdOf(5).s}

MissingId == IdOf(0).s

PostBodies == {[qty |-> N(1)]} \cup {[qty |-> N(1), userId |-> S(u)] : u \in Uids}

BatchBodies ==
    {A(<<>>), O([qty |-> N(1)]), A(<<[qty |-> N(1)], [qty |-> N(2)]>>)}
    \cup {A(<<[qty |-> N(1)], [qty |-> N(2), userId |-> S(u)]>>) : u \in Uids}

PutBodies == {[qty |-> N(9)]} \cup {[userId |-> S(u)] : u \in Uids}

PatchBodies ==
    {[path |-> "tags", data |-> S(StrAb), operation |-> Absent],
     [path |-> "qty", data |-> N(1), operation |-> Absent],
     [path |-> "qty", data |-> N(1), operation |-> "inc"]}
    \cup {[path |-> "userId", data |-> S(u), operation |-> "set"] : u \in Uids}

IdLists(collectionName) ==
    {Null, A(<<>>)}
    \cup {A(<<S(a)>>) : a \in StoredIds(collectionName)}
    \cup {A(<<S(a), S(b)>>) : a \in StoredIds(collectionName),
                              b \in StoredIds(collectionName) \cup {MissingId}}

InitWrites ==
    /\ store = FilledStore
    /\ lreq = NoRequest
    /\ lres = NoListResult
    /\ IdleCompile
    /\ IdleWrites
    /\ registry = <<>>
    /\ clock = 1
    /\ nextOid = FreeOid
    /\ qres = NoResponse
    /\ calls = NoCalls

NextWrites ==
    \E uid \in Uids : \E collectionName \in WriteCollections :
        \/ \E body \in PostBodies : PostDocument(uid, collectionName, body)
        \/ \E body \in BatchBodies : PostBatch(uid, collectionName, body)
        \/ \E id \in StoredIds(collectionName) : \E body \in PutBodies :
                PutDocument(uid, collectionName, id, body)
        \/ \E id \in StoredIds(collectionName) : \E b \in PatchBodies :
                PatchPath(uid, collectionName, id, b.path, b.data, b.operation)
        \/ \E id \in StoredIds(collectionName) \cup {MissingId} :
                DeleteDocument(uid, collectionName, id)
        \/ \E ids \in IdLists(collectionName) : DeleteBatch(uid, collectionName, ids)

SpecWrites == InitWrites /\ [][NextWrites]_vars

-----------------------------------------------------------------------------
(* The report of a batch delete *)

\* The ids of the documents of a collection.
IdsOf(docs) == {FieldOf(docs[i], "id") : i \in 1..Len(docs)}

\* A step in which a batch delete with a non-empty ids array is answered.
BatchDeleteStep ==
    /\ clock' = clock + 1
    /\ wreq'.op = "deleteBatch"
    /\ wres'.status = 200

\* C28: successCount is the number of documents the batch delete removed, and
\* errors lists exactly the requested ids that were not deleted: the id of a
\* deleted document is not among them.
C28_BatchDeleteReport ==
    [][BatchDeleteStep =>
        LET c == wreq'.collectionName
            removed == IdsOf(store[c]) \ IdsOf(store'[c])
            requested == {wreq'.arg.a[i] : i \in 1..Len(wreq'.arg.a)}
        IN  /\ wres'.successCount = Len(store[c]) - Len(store'[c])
            /\ {wres'.errors[i] : i \in 1..Len(wres'.errors)} = requested \ removed]_vars

-----------------------------------------------------------------------------
(* The documents of the other principals *)

\* The documents of a collection whose userId is the principal's id.
OwnedBy(docs, uid) == {docs[i] : i \in {j \in 1..Len(docs) : FieldOf(docs[j], "userId") = S(uid)}}

\* A step in which a write request on a collection other than users is answered.
WriteStep ==
    /\ clock' = clock + 1
    /\ wreq'.op \in {"post", "postBatch", "put", "patch", "delete", "deleteBatch"}
    /\ wreq'.collectionName # "users"

\* C30: a create, update, path update, delete or batch delete of one principal
\* on a collection other than users leaves the documents every other
\* principal owns as they are: none is added, modified or removed.
C30_OthersDocumentsUntouched ==
    [][WriteStep =>
        \A b \in Uids \ {wreq'.uid} : \A c \in Collections \ {"users"} :
            OwnedBy(store'[c], b) = OwnedBy(store[c], b)]_vars

-----------------------------------------------------------------------------
(* SpecQuota: create requests of free-tier principals that overlap *)

\* A create request in flight: before limitsMiddleware, let through by it and
\* waiting for the handler's insert, or answered.
CreateCall(uid, collectionName, batch, body) ==
    [uid |-> uid, collectionName |-> collectionName, batch |-> batch, body |-> body,
     stage |-> "arrived", status |-> 0]

\* limitsMiddleware for the p-th request: its count and its verdict.
LimitStep(p) ==
    /\ p \in 1..Len(calls)
    /\ calls[p].stage = "arrived"
    /\ calls' = [calls EXCEPT ![p] =
                    IF WithinLimit(store[@.collectionName], @.collectionName, @.uid)
                    THEN [@ EXCEPT !.stage = "admitted"]
                    ELSE [@ EXCEPT !.stage = "answered", !.status = 403]]
    /\ UNCHANGED <<store, registry, clock, nextOid, qres, lreq, lres, compileVars, writeVars>>

\* The handler of the p-th request, after the middleware called next().
InsertStep(p) ==
    /\ p \in 1..Len(calls)
    /\ calls[p].stage = "admitted"
    /\ LET call == calls[p]
           docs == store[call.collectionName]
       IN IF call.batch
          THEN IF call.body.t # "arr" \/ call.body.a = <<>>
               THEN /\ calls' = [calls EXCEPT ![p].stage = "answered", ![p].status = 400]
                    /\ UNCHANGED <<store, nextOid>>
               ELSE LET after == InsertMany(docs, call.body.a, call.uid, nextOid) IN
                    /\ store' = [store EXCEPT ![call.collectionName] = after]
                    /\ nextOid' = nextOid + Len(call.body.a)
                    /\ calls' = [calls EXCEPT
                                    ![p].stage = "answered",
                                    ![p].status = IF Len(after) - Len(docs) = Len(call.body.a)
                                                  THEN 201 ELSE 500]
          ELSE LET doc == NewDocument(call.body, call.uid, nextOid) IN
               /\ nextOid' = nextOid + 1
               /\ IF HasId(docs, doc["id"])
                  THEN /\ calls' = [calls EXCEPT ![p].stage = "answered", ![p].status = 500]
                       /\ UNCHANGED store
                  ELSE /\ store' = [store EXCEPT ![call.collectionName] = Append(docs, doc)]
                       /\ calls' = [calls EXCEPT ![p].stage = "answered", ![p].status = 201]
    /\ UNCHANGED <<registry, clock, qres, lreq, lres, compileVars, writeVars>>

\* The accounts collection when the first principal owns k accounts and the
\* second one.
AccountsOf(k) ==
    [EmptyStore EXCEPT !["accounts"] =
        Posted([i \in 1..(k + 1) |-> IF i <= k THEN U1 ELSE U2],
               [i \in 1..(k + 1) |-> [qty |-> N(i)]], 1)]

\* The create requests of the model, all on accounts.
CreateCalls ==
    {CreateCall(uid, "accounts", FALSE, body) : uid \in Uids, body \in PostBodies}
    \cup {CreateCall(uid, "accounts", TRUE, body) : uid \in Uids, body \in BatchBodies}

InitQuota ==
    /\ \E k \in 1..collectionLimits["accounts"] : store = AccountsOf(k)
    /\ lreq = NoRequest
    /\ lres = NoListResult
    /\ IdleCompile
    /\ IdleWrites
    /\ registry = <<>>
    /\ clock = 1
    /\ nextOid = Len(store["accounts"]) + 1
    /\ qres = NoResponse
    /\ calls \in {<<a, b>> : a, b \in CreateCalls}

NextQuota ==
    \/ \E p \in {1, 2} : LimitStep(p)
    \/ \E p \in {1, 2} : InsertStep(p)

SpecQuota == InitQuota /\ [][NextQuota]_vars

\* The number of documents of the collection that the principal owns.
OwnedCount(docs, uid) == Len(SelectDocs(docs, Put(<<>>, "userId", S(uid))))

\* No principal owns more documents than the collection's limit.
QuotaKept(s) ==
    \A uid \in Uids : \A c \in DOMAIN collectionLimits \cap DOMAIN s :
        OwnedCount(s[c], uid) <= collectionLimits[c]

\* The request p leaves the middleware in this step.
Judged(p) == calls[p].stage = "arrived" /\ calls'[p].stage # "arrived"

\* C29: whatever the order and the overlap of the create requests, no
\* free-tier principal ever owns more documents than the collection's limit,
\* and a create request that finds the count at or above the limit is
\* answered 403 and stores nothing.
C29_QuotaNeverExceeded ==
    [][/\ QuotaKept(store) => QuotaKept(store')
       /\ \A p \in 1..Len(calls) :
            (Judged(p) /\ OwnedCount(store[calls[p].collectionName], calls[p].uid)
                              >= collectionLimits[calls[p].collectionName])
                => (calls'[p].status = 403 /\ store' = store)]_vars

=============================================================================
